---- MODULE Spec2Model ----
(***************************************************************************)
(* Model of the ypbank_converter codec layer: the canonical Record, the    *)
(* binary, text and CSV readers/writers.                                   *)
(*                                                                         *)
(* Data representation                                                     *)
(*   u8            an integer 0..255                                        *)
(*   u64 / u32     a natural number (the sampled values stay below 2^31)    *)
(*   String        a sequence of Unicode code points                       *)
(*   Vec<u8>/file  a sequence of u8                                         *)
(*   Record        [id, record_type, amount, timestamp, status,            *)
(*                  description], record_type one of                       *)
(*                  [kind |-> "Deposit", to_user_id], [kind |->            *)
(*                  "Withdrawal", from_user_id], [kind |-> "Transfer",     *)
(*                  from_user_id, to_user_id]                              *)
(*   Result<T,E>   [ok |-> TRUE, val |-> t] or [ok |-> FALSE, err |-> e]   *)
(***************************************************************************)
EXTENDS Integers, Sequences, FiniteSets, TLC

VARIABLES
    pc,           \* position of the program: which call runs next
    records,      \* the &[Record] handed to write_all
    stream,       \* the bytes of the file (writer output / reader input)
    hostile,      \* TRUE when the file is altered between write and read
    damage,       \* what was done to the file (ghost, for the properties)
    io_fail,      \* offset at which the underlying Read fails, NoFail if never
    pos,          \* binary reader: offset of the frame header being read
    bin_records,  \* binary reader: Vec<BinRecord> collected so far
    lines,        \* text reader: the lines of the input (reader.lines())
    lineno,       \* text reader: number of lines consumed by the for loop
    map,          \* text reader: HashMap<String,String> of the open block
    txt_records,  \* text reader: Vec<Record> pushed so far
    headers,      \* CSV reader: the header row (rdr.headers())
    rows,         \* CSV reader: the data rows of the input
    rowno,        \* CSV reader: number of rows the iterator has yielded
    csv_records,  \* CSV reader: the records collected so far
    records1,     \* comparer: the records read from file 1
    records2,     \* comparer: the records read from file 2
    map1,         \* comparer: HashMap<u64, Record> of file 1
    map2,         \* comparer: HashMap<u64, Record> of file 2
    only_in_1,    \* comparer: Vec of the ids only in file 1
    only_in_2,    \* comparer: Vec of the ids only in file 2
    different_values,  \* comparer: Vec of the ids whose records differ
    output,       \* comparer: the lines printed
    output_format,  \* converter: the FileFormat of the writer, once chosen
    written,      \* converter: the bytes handed to the output writer
    returned,     \* converter: the Result of read_and_convert
    result        \* the Result returned by read_all, NoResult while running

csvVars == <<headers, rows, rowno, csv_records>>

cmpVars == <<records1, records2, map1, map2, only_in_1, only_in_2,
             different_values, output>>

convVars == <<output_format, written, returned>>

vars == <<pc, records, stream, hostile, damage, io_fail, pos, bin_records,
          lines, lineno, map, txt_records, csvVars, cmpVars, convVars,
          result>>

----------------------------------------------------------------------------
(* Bounds of the model *)

\* longest record sequence written and read back intact
MaxRecs == 2
\* longest record sequence whose file is damaged before it is read
MaxDamagedRecs == 2

\* longest record sequence written as CSV and read back
MaxCsvRecs == 2
\* longest record sequence written as text and read back
MaxTxtRecs == 2
\* largest number of pieces (blank line, comment, key line, block) a
\* hand-written text file is made of
MaxItems == 5
\* largest number of keys of a hand-written text block that are left out or
\* given another value
MaxDefects == 2
\* longest record collection handed to the comparer
MaxCmpRecs == 3

NoFail == -1
NoResult == [ok |-> FALSE, err |-> <<"running">>]
NoDamage == [kind |-> "none"]

Ok(v) == [ok |-> TRUE, val |-> v]
Err(e) == [ok |-> FALSE, err |-> e]

\* YpbankError (error.rs): a tuple of the variant's name and its payload
BinaryUnexpectedValue == <<"BinaryUnexpectedValue">>
BinaryReadError == <<"BinaryReadError">>
CsvParseError == <<"CsvParseError">>
CsvUnexpectedValue(value) == <<"CsvUnexpectedValue", value>>
TextFieldNotFound(field) == <<"TextFieldNotFound", field>>
TextUnexpectedFieldValue(field, value) == <<"TextUnexpectedFieldValue", field, value>>
TextUnableToParse(line) == <<"TextUnableToParse", line>>
TextDuplicateField(field) == <<"TextDuplicateField", field>>
TextReadError == <<"TextReadError">>

SeqsUpTo(S, n) == UNION {[1..k -> S] : k \in 0..n}

RECURSIVE Flatten(_)
Flatten(ss) == IF ss = <<>> THEN <<>> ELSE Head(ss) \o Flatten(Tail(ss))

----------------------------------------------------------------------------
(* Record model (lib.rs) *)

Deposit(to) == [kind |-> "Deposit", to_user_id |-> to]
Withdrawal(from) == [kind |-> "Withdrawal", from_user_id |-> from]
Transfer(from, to) == [kind |-> "Transfer", from_user_id |-> from, to_user_id |-> to]

RecordNew(id, record_type, amount, timestamp, status, description) ==
    [id |-> id, record_type |-> record_type, amount |-> amount,
     timestamp |-> timestamp, status |-> status, description |-> description]

RecordStatus == {"Success", "Failure", "Pending"}

----------------------------------------------------------------------------
(* Integers and strings as bytes (std: to_be_bytes, from_be_bytes,         *)
(* str::as_bytes, String::from_utf8)                                       *)

\* the k low-order bytes of n, most significant first
\* (u64::to_be_bytes with k = 8; `len as u32`.to_be_bytes() with k = 4)
RECURSIVE ToBeBytes(_, _)
ToBeBytes(n, k) ==
    IF k = 0 THEN <<>> ELSE Append(ToBeBytes(n \div 256, k - 1), n % 256)

RECURSIVE FromBeBytes(_)
FromBeBytes(b) ==
    IF b = <<>> THEN 0
    ELSE FromBeBytes(SubSeq(b, 1, Len(b) - 1)) * 256 + b[Len(b)]

\* UTF-8 encoding of one code point
Utf8Char(c) ==
    IF c < 128 THEN <<c>>
    ELSE IF c < 2048 THEN <<192 + (c \div 64), 128 + (c % 64)>>
    ELSE IF c < 65536 THEN
        <<224 + (c \div 4096), 128 + ((c \div 64) % 64), 128 + (c % 64)>>
    ELSE <<240 + (c \div 262144), 128 + ((c \div 4096) % 64),
           128 + ((c \div 64) % 64), 128 + (c % 64)>>

\* String::as_bytes
RECURSIVE AsBytes(_)
AsBytes(s) == IF s = <<>> THEN <<>> ELSE Utf8Char(Head(s)) \o AsBytes(Tail(s))

IsCont(b) == b >= 128 /\ b <= 191

\* number of bytes of the well-formed UTF-8 sequence at the head of b, 0 if
\* the head of b is not one (overlong forms, surrogates, > U+10FFFF, stray
\* continuation bytes and truncated sequences are rejected)
Utf8Width(b) ==
    LET n == Len(b)
        b0 == b[1]
    IN  IF b0 < 128 THEN 1
        ELSE IF b0 >= 194 /\ b0 <= 223
            THEN IF n >= 2 /\ IsCont(b[2]) THEN 2 ELSE 0
        ELSE IF b0 >= 224 /\ b0 <= 239
            THEN IF /\ n >= 3
                    /\ IsCont(b[2])
                    /\ IsCont(b[3])
                    /\ (b0 = 224 => b[2] >= 160)
                    /\ (b0 = 237 => b[2] <= 159)
                 THEN 3 ELSE 0
        ELSE IF b0 >= 240 /\ b0 <= 244
            THEN IF /\ n >= 4
                    /\ IsCont(b[2])
                    /\ IsCont(b[3])
                    /\ IsCont(b[4])
                    /\ (b0 = 240 => b[2] >= 144)
                    /\ (b0 = 244 => b[2] <= 143)
                 THEN 4 ELSE 0
        ELSE 0

Utf8CodePoint(b, w) ==
    IF w = 1 THEN b[1]
    ELSE IF w = 2 THEN (b[1] - 192) * 64 + (b[2] - 128)
    ELSE IF w = 3 THEN (b[1] - 224) * 4096 + (b[2] - 128) * 64 + (b[3] - 128)
    ELSE (b[1] - 240) * 262144 + (b[2] - 128) * 4096 + (b[3] - 128) * 64
         + (b[4] - 128)

\* String::from_utf8: Ok(the string) or Err("utf8")
RECURSIVE FromUtf8(_)
FromUtf8(b) ==
    IF b = <<>> THEN Ok(<<>>)
    ELSE LET w == Utf8Width(b) IN
         IF w = 0 THEN Err("utf8")
         ELSE LET rest == FromUtf8(SubSeq(b, w + 1, Len(b))) IN
              IF rest.ok THEN Ok(<<Utf8CodePoint(b, w)>> \o rest.val)
              ELSE rest

----------------------------------------------------------------------------
(* Sampled inputs *)

\* (id, amount, timestamp) triples: all zero, and values whose big-endian
\* and decimal forms have several distinct digits
NumSamples == {<<0, 0, 0>>, <<258, 1000, 2147483647>>}

TypeSamples == {Deposit(7), Withdrawal(66000), Transfer(7, 66000)}

\* "", and `a"` followed by U+00E9 (two bytes in UTF-8) and a line feed
BinDescriptions == {<<>>, <<97, 34, 233, 10>>}

BinRecordPool ==
    {RecordNew(n[1], t, n[2], n[3], s, d) :
        n \in NumSamples, t \in TypeSamples, s \in RecordStatus,
        d \in BinDescriptions}

\* the records whose files are damaged: descriptions of 0 and of 3 bytes
DamagedPool ==
    {RecordNew(258, Transfer(7, 66000), 1000, 2147483647, "Pending", <<>>),
     RecordNew(1, Deposit(7), 5, 6, "Success", <<97, 233>>)}

----------------------------------------------------------------------------
(* Binary codec (bin_format.rs) *)

\* b"YPBN"
HEADER == <<89, 80, 66, 78>>

\* BinRecordFromSwappedTags: Withdrawal and Transfer exchange their tag bytes
BinRecordFromSwappedTags(value) ==
    LET t == value.record_type
        flat == CASE t.kind = "Deposit" -> <<0, 0, t.to_user_id>>
                  [] t.kind = "Withdrawal" -> <<1, t.from_user_id, 0>>
                  [] t.kind = "Transfer" -> <<2, t.from_user_id, t.to_user_id>>
    IN  [id |-> ToBeBytes(value.id, 8),
         record_type |-> flat[1],
         from_user_id |-> ToBeBytes(flat[2], 8),
         to_user_id |-> ToBeBytes(flat[3], 8),
         amount |-> ToBeBytes(value.amount, 8),
         timestamp |-> ToBeBytes(value.timestamp, 8),
         status |-> CASE value.status = "Success" -> 0
                      [] value.status = "Failure" -> 1
                      [] value.status = "Pending" -> 2,
         description |-> AsBytes(value.description)]

\* From<&Record> for BinRecord
BinRecordFrom(value) ==
    LET t == value.record_type
        flat == CASE t.kind = "Deposit" -> <<0, 0, t.to_user_id>>
                  [] t.kind = "Withdrawal" -> <<2, t.from_user_id, 0>>
                  [] t.kind = "Transfer" -> <<1, t.from_user_id, t.to_user_id>>
    IN  [id |-> ToBeBytes(value.id, 8),
         record_type |-> flat[1],
         from_user_id |-> ToBeBytes(flat[2], 8),
         to_user_id |-> ToBeBytes(flat[3], 8),
         amount |-> ToBeBytes(value.amount, 8),
         timestamp |-> ToBeBytes(value.timestamp, 8),
         status |-> CASE value.status = "Success" -> 0
                      [] value.status = "Failure" -> 1
                      [] value.status = "Pending" -> 2,
         description |-> AsBytes(value.description)]

\* BinRecordTryIntoCatchAll: the last arm of each match is `_` instead of 2
BinRecordTryIntoCatchAll(self) ==
    LET description == FromUtf8(self.description)
    IN  IF ~description.ok THEN Err(BinaryUnexpectedValue)
        ELSE Ok(RecordNew(
                FromBeBytes(self.id),
                CASE self.record_type = 0 ->
                        Deposit(FromBeBytes(self.to_user_id))
                  [] self.record_type = 1 ->
                        Transfer(FromBeBytes(self.from_user_id),
                                 FromBeBytes(self.to_user_id))
                  [] OTHER -> Withdrawal(FromBeBytes(self.from_user_id)),
                FromBeBytes(self.amount),
                FromBeBytes(self.timestamp),
                CASE self.status = 0 -> "Success"
                  [] self.status = 1 -> "Failure"
                  [] OTHER -> "Pending",
                description.val))

\* TryInto<Record> for BinRecord
BinRecordTryInto(self) ==
    LET id == FromBeBytes(self.id)
        from_user_id == FromBeBytes(self.from_user_id)
        to_user_id == FromBeBytes(self.to_user_id)
        amount == FromBeBytes(self.amount)
        timestamp == FromBeBytes(self.timestamp)
        description == FromUtf8(self.description)
    IN  IF self.record_type \notin {0, 1, 2} THEN Err(BinaryUnexpectedValue)
        ELSE IF self.status \notin {0, 1, 2} THEN Err(BinaryUnexpectedValue)
        ELSE IF ~description.ok THEN Err(BinaryUnexpectedValue)
        ELSE Ok(RecordNew(
                id,
                CASE self.record_type = 0 -> Deposit(to_user_id)
                  [] self.record_type = 1 -> Transfer(from_user_id, to_user_id)
                  [] self.record_type = 2 -> Withdrawal(from_user_id),
                amount,
                timestamp,
                CASE self.status = 0 -> "Success"
                  [] self.status = 1 -> "Failure"
                  [] self.status = 2 -> "Pending",
                description.val))

\* the `buffer` of one iteration of BinRecordWriter::write_all
BinPayload(bin_record) ==
    bin_record.id \o <<bin_record.record_type>> \o bin_record.from_user_id
    \o bin_record.to_user_id \o bin_record.amount \o bin_record.timestamp
    \o <<bin_record.status>> \o ToBeBytes(Len(bin_record.description), 4)
    \o bin_record.description

\* BinFrameLengthOfFrame: the length field counts the whole frame
BinFrameLengthOfFrame(record) ==
    LET buffer == BinPayload(BinRecordFrom(record))
    IN  HEADER \o ToBeBytes(Len(buffer) + 8, 4) \o buffer

\* the three w.write_all calls of one iteration of BinRecordWriter::write_all
BinFrame(record) ==
    LET buffer == BinPayload(BinRecordFrom(record))
    IN  HEADER \o ToBeBytes(Len(buffer), 4) \o buffer

\* BinRecordWriter::write_all on a writer that accepts every byte
BinWriteAll(rs) == Flatten([i \in 1..Len(rs) |-> BinFrame(rs[i])])

\* HeaderMatchesFirstByte: only the first byte of the tag is compared
HeaderMatchesFirstByte(header) == header[1] = HEADER[1]

\* the guard `&header == BinRecord::HEADER`
HeaderMatches(header) == header = HEADER

\* ReadExactIgnoringErr: the Err of read_exact is dropped, the bytes that were
\* not delivered stay 0 as the buffer was initialised
ReadExactIgnoringErr(s, p, n, fail) ==
    LET end == IF fail = NoFail THEN Len(s) ELSE fail
    IN  [ok |-> TRUE,
         buf |-> [i \in 1..n |-> IF p + i <= end THEN s[p + i] ELSE 0],
         pos |-> p + n]

\* Read::read_exact of n bytes at offset p: Err when the stream ends or the
\* underlying reader fails before n bytes were delivered
ReadExact(s, p, n, fail) ==
    IF p + n <= Len(s) /\ (fail = NoFail \/ p + n <= fail)
    THEN [ok |-> TRUE, buf |-> SubSeq(s, p + 1, p + n), pos |-> p + n]
    ELSE [ok |-> FALSE, buf |-> <<>>, pos |-> p]

\* DescriptionLengthFromRecordLength: the description is what the record
\* length leaves after the 46 bytes of the fixed fields
DescriptionLengthFromRecordLength(record_length, description_length) ==
    IF FromBeBytes(record_length) >= 46
    THEN FromBeBytes(record_length) - 46
    ELSE 0

\* the length of the `description` buffer of read_all: description_length
\* alone, the bytes of _record_length are not looked at
DescriptionLength(record_length, description_length) ==
    FromBeBytes(description_length)

\* try_into of every BinRecord, collected into Result<Vec<Record>, _>:
\* the first Err, else all the records
RECURSIVE BinCollectAll(_)
BinCollectAll(brs) ==
    IF brs = <<>> THEN Ok(<<>>)
    ELSE LET first == BinRecordTryInto(Head(brs)) IN
         IF ~first.ok THEN first
         ELSE LET rest == BinCollectAll(Tail(brs)) IN
              IF rest.ok THEN Ok(<<first.val>> \o rest.val) ELSE rest

\* offset of the i-th frame of the file write_all made of rs (first is 1)
FrameStart(rs, i) == Len(BinWriteAll(SubSeq(rs, 1, i - 1)))

\* offsets inside a frame
OffRecordLength == 4
OffRecordType == 16
OffFromUserId == 17
OffToUserId == 25
OffStatus == 49
OffDescriptionLength == 50
OffDescription == 54

CsvIdle ==
    /\ headers = <<>>
    /\ rows = <<>>
    /\ rowno = 0
    /\ csv_records = <<>>

TextIdle ==
    /\ lines = <<>>
    /\ lineno = 0
    /\ map = <<>>
    /\ txt_records = <<>>

ConvIdle ==
    /\ output_format = "none"
    /\ written = <<>>
    /\ returned = NoResult

CmpIdle ==
    /\ records1 = <<>>
    /\ records2 = <<>>
    /\ map1 = <<>>
    /\ map2 = <<>>
    /\ only_in_1 = <<>>
    /\ only_in_2 = <<>>
    /\ different_values = <<>>
    /\ output = <<>>

BinInit ==
    /\ pc = "bin_write"
    /\ hostile \in BOOLEAN
    /\ records \in IF hostile THEN SeqsUpTo(DamagedPool, MaxDamagedRecs)
                   ELSE SeqsUpTo(BinRecordPool, MaxRecs)
    /\ stream = <<>>
    /\ damage = NoDamage
    /\ io_fail = NoFail
    /\ pos = 0
    /\ bin_records = <<>>
    /\ result = NoResult
    /\ TextIdle
    /\ CsvIdle
    /\ CmpIdle
    /\ ConvIdle

\* write_all_records(.., Binary, records)
BinWrite ==
    /\ pc = "bin_write"
    /\ stream' = BinWriteAll(records)
    /\ pc' = "stored"
    /\ UNCHANGED cmpVars
    /\ UNCHANGED convVars
    /\ UNCHANGED <<csvVars, records, hostile, damage, io_fail, pos, bin_records,
                   lines, lineno, map, txt_records, result>>

\* the file reaches the reader as written
EnvIntact ==
    /\ pc = "stored"
    /\ ~hostile
    /\ pc' = "bin_read"
    /\ UNCHANGED cmpVars
    /\ UNCHANGED convVars
    /\ UNCHANGED <<csvVars, records, stream, hostile, damage, io_fail, pos,
                   bin_records, lines, lineno, map, txt_records, result>>

\* the file is cut after its first k bytes
EnvTruncate ==
    /\ pc = "stored"
    /\ hostile
    /\ \E k \in 0..(Len(stream) - 1) :
        /\ stream' = SubSeq(stream, 1, k)
        /\ damage' = [kind |-> "truncate", at |-> k]
    /\ pc' = "bin_read"
    /\ UNCHANGED cmpVars
    /\ UNCHANGED convVars
    /\ UNCHANGED <<csvVars, records, hostile, io_fail, pos, bin_records,
                   lines, lineno, map, txt_records, result>>

\* the underlying reader fails once k bytes were delivered
EnvIoFail ==
    /\ pc = "stored"
    /\ hostile
    /\ \E k \in 0..(Len(stream) - 1) :
        /\ io_fail' = k
        /\ damage' = [kind |-> "io", at |-> k]
    /\ pc' = "bin_read"
    /\ UNCHANGED cmpVars
    /\ UNCHANGED convVars
    /\ UNCHANGED <<csvVars, records, stream, hostile, pos, bin_records,
                   lines, lineno, map, txt_records, result>>

\* one tag byte of frame i is overwritten with a value outside 0..2
EnvSetTag ==
    /\ pc = "stored"
    /\ hostile
    /\ \E i \in 1..Len(records), off \in {OffRecordType, OffStatus},
          v \in {3, 255} :
        /\ stream' = [stream EXCEPT ![FrameStart(records, i) + off + 1] = v]
        /\ damage' = [kind |-> "tag", frame |-> i, off |-> off]
    /\ pc' = "bin_read"
    /\ UNCHANGED cmpVars
    /\ UNCHANGED convVars
    /\ UNCHANGED <<csvVars, records, hostile, io_fail, pos, bin_records,
                   lines, lineno, map, txt_records, result>>

\* one byte of the magic header of frame i is overwritten
EnvSetMagic ==
    /\ pc = "stored"
    /\ hostile
    /\ \E i \in 1..Len(records), j \in 0..3, v \in {0, 121} :
        /\ stream' = [stream EXCEPT ![FrameStart(records, i) + j + 1] = v]
        /\ damage' = [kind |-> "magic", frame |-> i, off |-> j]
    /\ pc' = "bin_read"
    /\ UNCHANGED cmpVars
    /\ UNCHANGED convVars
    /\ UNCHANGED <<csvVars, records, hostile, io_fail, pos, bin_records,
                   lines, lineno, map, txt_records, result>>

\* the last byte of from_user_id or of to_user_id of frame i is overwritten,
\* so that the frame may carry a user id its type has no use for
EnvSetUserId ==
    /\ pc = "stored"
    /\ hostile
    /\ \E i \in 1..Len(records), off \in {OffFromUserId, OffToUserId},
          v \in {0, 9} :
        /\ stream' = [stream EXCEPT ![FrameStart(records, i) + off + 8] = v]
        /\ damage' = [kind |-> "user", frame |-> i, off |-> off]
    /\ pc' = "bin_read"
    /\ UNCHANGED cmpVars
    /\ UNCHANGED convVars
    /\ UNCHANGED <<csvVars, records, hostile, io_fail, pos, bin_records,
                   lines, lineno, map, txt_records, result>>

\* the record length of frame i, or of every frame, is overwritten with v
\* less or more than the payload has; the file may also be cut after k bytes
\* or have the status tag of frame j set to 3. `twin` is the same file with
\* the record lengths as they were written
EnvSetRecordLength ==
    /\ pc = "stored"
    /\ hostile
    /\ records # <<>>
    /\ \E i \in 0..Len(records), d \in {-46, -1, 1} :
        LET frames == IF i = 0 THEN 1..Len(records) ELSE {i}
            field(n) ==
                ToBeBytes(IF d = -46 THEN 0
                          ELSE Len(BinFrame(records[n])) - 8 + d, 4)
            changed ==
                Flatten([n \in 1..Len(records) |->
                    LET frame == BinFrame(records[n]) IN
                    IF n \in frames
                    THEN SubSeq(frame, 1, OffRecordLength) \o field(n)
                         \o SubSeq(frame, OffRecordLength + 5, Len(frame))
                    ELSE frame])
        IN  \/ \E k \in 0..Len(stream) :
                /\ stream' = SubSeq(changed, 1, k)
                /\ damage' = [kind |-> "length", frame |-> i,
                              twin |-> SubSeq(stream, 1, k)]
            \/ \E j \in 1..Len(records) :
                LET at == FrameStart(records, j) + OffStatus + 1 IN
                /\ stream' = [changed EXCEPT ![at] = 3]
                /\ damage' = [kind |-> "length", frame |-> i,
                              twin |-> [stream EXCEPT ![at] = 3]]
    /\ pc' = "bin_read"
    /\ UNCHANGED cmpVars
    /\ UNCHANGED convVars
    /\ UNCHANGED <<csvVars, records, hostile, io_fail, pos, bin_records,
                   lines, lineno, map, txt_records, result>>

\* two defects: in frame i the status tag is set to 3 or the first byte of
\* the description to 0xFF (never valid in UTF-8), and a later frame j has the
\* first byte of its magic header overwritten or is cut k bytes in
EnvTwoDefects ==
    /\ pc = "stored"
    /\ hostile
    /\ \E i \in 1..Len(records), first \in {"tag", "utf8"},
          second \in {"magic", "truncate"} :
        \E j \in (i + 1)..Len(records) :
        \E k \in 1..(Len(BinFrame(records[j])) - 1) :
            /\ first = "utf8" => records[i].description # <<>>
            /\ second = "magic" => k = 1
            /\ LET at == FrameStart(records, i)
                         + (IF first = "tag" THEN OffStatus ELSE OffDescription)
                   s1 == [stream EXCEPT ![at + 1] =
                             IF first = "tag" THEN 3 ELSE 255]
               IN  stream' =
                     IF second = "magic"
                     THEN [s1 EXCEPT ![FrameStart(records, j) + 1] = 0]
                     ELSE SubSeq(s1, 1, FrameStart(records, j) + k)
            /\ damage' = [kind |-> "two", frame |-> i, first |-> first,
                          later |-> j, second |-> second, cut |-> k]
    /\ pc' = "bin_read"
    /\ UNCHANGED cmpVars
    /\ UNCHANGED convVars
    /\ UNCHANGED <<csvVars, records, hostile, io_fail, pos, bin_records,
                   lines, lineno, map, txt_records, result>>

\* one iteration of the loop of BinRecordReader::read_all
BinReadFrame ==
    /\ pc = "bin_read"
    /\ LET header_res == ReadExact(stream, pos, 4, io_fail)
           record_length == ReadExact(stream, header_res.pos, 4, io_fail)
           id == ReadExact(stream, record_length.pos, 8, io_fail)
           record_type == ReadExact(stream, id.pos, 1, io_fail)
           from_user_id == ReadExact(stream, record_type.pos, 8, io_fail)
           to_user_id == ReadExact(stream, from_user_id.pos, 8, io_fail)
           amount == ReadExact(stream, to_user_id.pos, 8, io_fail)
           timestamp == ReadExact(stream, amount.pos, 8, io_fail)
           status == ReadExact(stream, timestamp.pos, 1, io_fail)
           description_length == ReadExact(stream, status.pos, 4, io_fail)
           description ==
               ReadExact(stream, description_length.pos,
                         DescriptionLength(record_length.buf,
                                           description_length.buf), io_fail)
       IN  IF ~header_res.ok
           THEN \* Err(_) => break
                /\ pc' = "bin_collect"
                /\ UNCHANGED <<pos, bin_records, result>>
           ELSE IF ~HeaderMatches(header_res.buf)
           THEN /\ result' = Err(BinaryUnexpectedValue)
                /\ pc' = "done"
                /\ UNCHANGED <<pos, bin_records>>
           ELSE IF \/ ~record_length.ok
                   \/ ~id.ok
                   \/ ~record_type.ok
                   \/ ~from_user_id.ok
                   \/ ~to_user_id.ok
                   \/ ~amount.ok
                   \/ ~timestamp.ok
                   \/ ~status.ok
                   \/ ~description_length.ok
                   \/ ~description.ok
           THEN /\ result' = Err(BinaryReadError)
                /\ pc' = "done"
                /\ UNCHANGED <<pos, bin_records>>
           ELSE /\ bin_records' = Append(bin_records,
                    [id |-> id.buf,
                     record_type |-> record_type.buf[1],
                     from_user_id |-> from_user_id.buf,
                     to_user_id |-> to_user_id.buf,
                     amount |-> amount.buf,
                     timestamp |-> timestamp.buf,
                     status |-> status.buf[1],
                     description |-> description.buf])
                /\ pos' = description.pos
                /\ UNCHANGED <<pc, result>>
    /\ UNCHANGED cmpVars
    /\ UNCHANGED convVars
    /\ UNCHANGED <<csvVars, records, stream, hostile, damage, io_fail,
                   lines, lineno, map, txt_records>>

\* the last expression of BinRecordReader::read_all
BinCollect ==
    /\ pc = "bin_collect"
    /\ result' = BinCollectAll(bin_records)
    /\ pc' = "done"
    /\ UNCHANGED cmpVars
    /\ UNCHANGED convVars
    /\ UNCHANGED <<csvVars, records, stream, hostile, damage, io_fail, pos,
                   bin_records, lines, lineno, map, txt_records>>

BinNext ==
    \/ BinWrite
    \/ EnvIntact
    \/ EnvTruncate
    \/ EnvIoFail
    \/ EnvSetTag
    \/ EnvSetMagic
    \/ EnvSetUserId
    \/ EnvSetRecordLength
    \/ EnvTwoDefects
    \/ BinReadFrame
    \/ BinCollect

SpecBin == BinInit /\ [][BinNext]_vars

----------------------------------------------------------------------------
(* Properties of the binary codec *)

BinDone == pc = "done"

\* C1: binary round trip: reading back the bytes write_all produced for any
\* record sequence succeeds and returns exactly that sequence, same length
\* and same order
C1_BinRoundTrip ==
    (BinDone /\ ~hostile) => result = Ok(records)

C1_Witness ==
    /\ BinDone
    /\ ~hostile
    /\ Len(records) = 2
    /\ records[1].record_type.kind = "Withdrawal"
    /\ records[2].record_type.kind = "Transfer"
    /\ records[1].description # <<>>
    /\ records[2].description = <<>>
    /\ result.ok

\* C4 (as claimed): read_all returns Ok only when zero bytes were available
\* where the next frame header was expected and the reader did not fail
C4_OkOnlyOnCleanEof ==
    (BinDone /\ result.ok) => (pos = Len(stream) /\ io_fail = NoFail)

\* the truncation or read failure at offset `at` falls in frame i after its
\* 4-byte magic header and before its last byte
InsideFrame(at, i) ==
    /\ at >= FrameStart(records, i) + 4
    /\ at < FrameStart(records, i + 1)

\* C5: a stream that holds a complete magic header and ends (or fails) before
\* the end of that frame is refused with the binary-read error: no record
\* with a shortened description, no success with the earlier records
C5_TruncatedFrameIsReadError ==
    (/\ BinDone
     /\ damage.kind \in {"truncate", "io"}
     /\ \E i \in 1..Len(records) : InsideFrame(damage.at, i))
    => result = Err(BinaryReadError)

\* cut inside the description of the second frame
C5_Witness ==
    /\ BinDone
    /\ damage.kind = "truncate"
    /\ Len(records) = 2
    /\ Len(bin_records) = 1
    /\ damage.at >= FrameStart(records, 2) + OffDescription + 1
    /\ damage.at < Len(BinWriteAll(records))
    /\ result = Err(BinaryReadError)

TagKind(tag) ==
    CASE tag = 0 -> "Deposit" [] tag = 1 -> "Transfer" [] tag = 2 -> "Withdrawal"
      [] OTHER -> "none"

TagStatus(tag) ==
    CASE tag = 0 -> "Success" [] tag = 1 -> "Failure" [] tag = 2 -> "Pending"
      [] OTHER -> "none"

\* C6: a frame whose record-type or status tag byte is outside {0,1,2} in an
\* otherwise well-formed stream makes read_all fail with the unexpected-value
\* error; in every successful read the tags 0/1/2 of frame i gave
\* Deposit/Transfer/Withdrawal and Success/Failure/Pending
C6_TagValidation ==
    /\ (BinDone /\ damage.kind = "tag")
        => result = Err(BinaryUnexpectedValue)
    /\ (BinDone /\ result.ok) =>
        \A i \in 1..Len(result.val) :
            LET at == FrameStart(records, i) IN
            /\ result.val[i].record_type.kind
                   = TagKind(stream[at + OffRecordType + 1])
            /\ result.val[i].status = TagStatus(stream[at + OffStatus + 1])

\* status tag 3 in the second of two frames
C6_Witness ==
    /\ BinDone
    /\ damage.kind = "tag"
    /\ damage.frame = 2
    /\ damage.off = OffStatus
    /\ stream[FrameStart(records, 2) + OffStatus + 1] = 3
    /\ Len(bin_records) = 2
    /\ result = Err(BinaryUnexpectedValue)

\* C7: 4 bytes read where a frame header is expected that are not "YPBN" make
\* read_all fail with the unexpected-value error, whatever number of valid
\* frames precede them
C7_BadMagic ==
    /\ (/\ BinDone
         /\ ReadExact(stream, pos, 4, io_fail).ok
         /\ ReadExact(stream, pos, 4, io_fail).buf # <<89, 80, 66, 78>>)
        => result = Err(BinaryUnexpectedValue)
    /\ (BinDone /\ damage.kind = "magic")
        => (/\ result = Err(BinaryUnexpectedValue)
            /\ pos = FrameStart(records, damage.frame))

\* the last byte of the second magic header is wrong, one valid frame precedes
C7_Witness ==
    /\ BinDone
    /\ damage.kind = "magic"
    /\ damage.frame = 2
    /\ damage.off = 3
    /\ Len(bin_records) = 1
    /\ pos = FrameStart(records, 2)
    /\ result = Err(BinaryUnexpectedValue)

\* the user ids a record carries in the flat layout, 0 when not applicable
FlatFrom(r) ==
    IF r.record_type.kind = "Deposit" THEN 0 ELSE r.record_type.from_user_id
FlatTo(r) ==
    IF r.record_type.kind = "Withdrawal" THEN 0 ELSE r.record_type.to_user_id

\* byte length of the frame the layout of section 4.2 gives record r
LayoutLen(r) == 8 + 46 + Len(AsBytes(r.description))

RECURSIVE LayoutStart(_, _)
LayoutStart(rs, i) ==
    IF i = 1 THEN 0 ELSE LayoutStart(rs, i - 1) + LayoutLen(rs[i - 1])

Field(s, at, off, n) == SubSeq(s, at + off + 1, at + off + n)

\* C8: every frame written is "YPBN", the 4-byte big-endian record length,
\* then id(8) type(1) from(8) to(8) amount(8) timestamp(8) status(1)
\* description length(4) description; the record length is 46 plus the
\* description's byte length and the description length is that byte length
C8_EncodeLayout ==
    pc = "stored" =>
        /\ Len(stream) = LayoutStart(records, Len(records) + 1)
        /\ \A i \in 1..Len(records) :
            LET r == records[i]
                at == LayoutStart(records, i)
                dlen == Len(AsBytes(r.description))
            IN  /\ Field(stream, at, 0, 4) = <<89, 80, 66, 78>>
                /\ FromBeBytes(Field(stream, at, 4, 4)) = 46 + dlen
                /\ FromBeBytes(Field(stream, at, 8, 8)) = r.id
                /\ TagKind(stream[at + 17]) = r.record_type.kind
                /\ FromBeBytes(Field(stream, at, 17, 8)) = FlatFrom(r)
                /\ FromBeBytes(Field(stream, at, 25, 8)) = FlatTo(r)
                /\ FromBeBytes(Field(stream, at, 33, 8)) = r.amount
                /\ FromBeBytes(Field(stream, at, 41, 8)) = r.timestamp
                /\ TagStatus(stream[at + 50]) = r.status
                /\ FromBeBytes(Field(stream, at, 50, 4)) = dlen
                /\ Field(stream, at, 54, dlen) = AsBytes(r.description)

C8_Witness ==
    /\ pc = "stored"
    /\ Len(records) = 2
    /\ records[1].description = <<97, 34, 233, 10>>
    /\ records[2].record_type.kind = "Deposit"
    /\ Len(stream) = 113

\* C20 (as claimed): when frame i carries an out-of-range tag or a description
\* that is not UTF-8 and a later frame is cut short or has a bad magic header,
\* read_all returns the unexpected-value error of frame i and has not read
\* past that frame
C20_FirstDefectInStreamOrder ==
    (BinDone /\ damage.kind = "two") =>
        /\ result = Err(BinaryUnexpectedValue)
        /\ Len(bin_records) <= damage.frame
        /\ pos <= FrameStart(records, damage.frame + 1)

\* C21 (as claimed): whenever read_all succeeds, flattening each produced
\* Record with the mapping of BinRecord::from gives back the type tag,
\* from_user_id and to_user_id that the frame carried, also when a Deposit
\* frame carries a non-zero from_user_id or a Withdrawal frame a non-zero
\* to_user_id
C21_TypeAgreesWithFlatIds ==
    (BinDone /\ result.ok) =>
        \A i \in 1..Len(result.val) :
            LET at == FrameStart(records, i)
                flat == BinRecordFrom(result.val[i])
            IN  /\ stream[at + OffRecordType + 1] = flat.record_type
                /\ Field(stream, at, OffFromUserId, 8) = flat.from_user_id
                /\ Field(stream, at, OffToUserId, 8) = flat.to_user_id

\* BinRecordReader::read_all as a function of the bytes s, from offset p with
\* the BinRecords brs collected so far, on a reader that never fails
RECURSIVE BinReadAll(_, _, _)
BinReadAll(s, p, brs) ==
    LET header_res == ReadExact(s, p, 4, NoFail)
        record_length == ReadExact(s, header_res.pos, 4, NoFail)
        id == ReadExact(s, record_length.pos, 8, NoFail)
        record_type == ReadExact(s, id.pos, 1, NoFail)
        from_user_id == ReadExact(s, record_type.pos, 8, NoFail)
        to_user_id == ReadExact(s, from_user_id.pos, 8, NoFail)
        amount == ReadExact(s, to_user_id.pos, 8, NoFail)
        timestamp == ReadExact(s, amount.pos, 8, NoFail)
        status == ReadExact(s, timestamp.pos, 1, NoFail)
        description_length == ReadExact(s, status.pos, 4, NoFail)
        description ==
            ReadExact(s, description_length.pos,
                      DescriptionLength(record_length.buf,
                                        description_length.buf), NoFail)
    IN  IF ~header_res.ok THEN BinCollectAll(brs)
        ELSE IF ~HeaderMatches(header_res.buf)
        THEN Err(BinaryUnexpectedValue)
        ELSE IF \/ ~record_length.ok
                \/ ~id.ok
                \/ ~record_type.ok
                \/ ~from_user_id.ok
                \/ ~to_user_id.ok
                \/ ~amount.ok
                \/ ~timestamp.ok
                \/ ~status.ok
                \/ ~description_length.ok
                \/ ~description.ok
        THEN Err(BinaryReadError)
        ELSE BinReadAll(s, description.pos,
                 Append(brs,
                    [id |-> id.buf,
                     record_type |-> record_type.buf[1],
                     from_user_id |-> from_user_id.buf,
                     to_user_id |-> to_user_id.buf,
                     amount |-> amount.buf,
                     timestamp |-> timestamp.buf,
                     status |-> status.buf[1],
                     description |-> description.buf]))

----------------------------------------------------------------------------
(* Text codec (txt_format.rs) *)

K_TX_ID == <<84, 88, 95, 73, 68>>
K_TX_TYPE == <<84, 88, 95, 84, 89, 80, 69>>
K_FROM_USER_ID == <<70, 82, 79, 77, 95, 85, 83, 69, 82, 95, 73, 68>>
K_TO_USER_ID == <<84, 79, 95, 85, 83, 69, 82, 95, 73, 68>>
K_AMOUNT == <<65, 77, 79, 85, 78, 84>>
K_TIMESTAMP == <<84, 73, 77, 69, 83, 84, 65, 77, 80>>
K_STATUS == <<83, 84, 65, 84, 85, 83>>
K_DESCRIPTION == <<68, 69, 83, 67, 82, 73, 80, 84, 73, 79, 78>>

S_DEPOSIT == <<68, 69, 80, 79, 83, 73, 84>>
S_WITHDRAWAL == <<87, 73, 84, 72, 68, 82, 65, 87, 65, 76>>
S_TRANSFER == <<84, 82, 65, 78, 83, 70, 69, 82>>
S_SUCCESS == <<83, 85, 67, 67, 69, 83, 83>>
S_FAILURE == <<70, 65, 73, 76, 85, 82, 69>>
S_PENDING == <<80, 69, 78, 68, 73, 78, 71>>

\* const DELIMITER: &str = ": "
DELIMITER == <<58, 32>>

\* '"' and '\n'
QUOTE == <<34>>
LF == <<10>>

\* u64::to_string: the decimal digits
RECURSIVE U64ToString(_)
U64ToString(n) ==
    IF n < 10 THEN <<48 + n>>
    ELSE Append(U64ToString(n \div 10), 48 + (n % 10))

IsDigits(s) == \A i \in 1..Len(s) : s[i] >= 48 /\ s[i] <= 57

RECURSIVE StripZeros(_)
StripZeros(d) ==
    IF d # <<>> /\ Head(d) = 48 THEN StripZeros(Tail(d)) ELSE d

\* "18446744073709551615", u64::MAX
U64_MAX_DIGITS ==
    <<49, 56, 52, 52, 54, 55, 52, 52, 48, 55, 51, 55, 48, 57, 53, 53, 49, 54,
      49, 53>>

\* a <= b for digit strings of equal length
RECURSIVE DigitsLeq(_, _)
DigitsLeq(a, b) ==
    IF a = <<>> THEN TRUE
    ELSE IF Head(a) # Head(b) THEN Head(a) < Head(b)
    ELSE DigitsLeq(Tail(a), Tail(b))

\* the digits denote a number <= u64::MAX
FitsU64(d) ==
    LET z == StripZeros(d)
    IN  \/ Len(z) < Len(U64_MAX_DIGITS)
        \/ Len(z) = Len(U64_MAX_DIGITS) /\ DigitsLeq(z, U64_MAX_DIGITS)

RECURSIVE DecValue(_)
DecValue(d) ==
    IF d = <<>> THEN 0
    ELSE DecValue(SubSeq(d, 1, Len(d) - 1)) * 10 + (d[Len(d)] - 48)

\* "2147483647": the largest u64 value held as a TLA+ integer; a larger
\* value is held as its decimal digits without leading zeros
SMALL_MAX_DIGITS == <<50, 49, 52, 55, 52, 56, 51, 54, 52, 55>>

\* the u64 value the digits z (no leading zeros) denote
U64Value(z) ==
    IF \/ Len(z) < Len(SMALL_MAX_DIGITS)
       \/ Len(z) = Len(SMALL_MAX_DIGITS) /\ DigitsLeq(z, SMALL_MAX_DIGITS)
    THEN DecValue(z)
    ELSE <<"u64", z>>

\* ParseU64NoOverflowCheck: every digit string is accepted
ParseU64NoOverflowCheck(s) ==
    LET d == IF s # <<>> /\ Head(s) = 43 THEN Tail(s) ELSE s
    IN  IF d # <<>> /\ IsDigits(d)
        THEN Ok(U64Value(StripZeros(d)))
        ELSE Err(<<"ParseIntError">>)

\* str::parse::<u64>: an optional '+', then one or more decimal digits whose
\* value fits 64 bits; nothing is trimmed
ParseU64(s) ==
    LET d == IF s # <<>> /\ Head(s) = 43 THEN Tail(s) ELSE s
    IN  IF d # <<>> /\ IsDigits(d) /\ FitsU64(d)
        THEN Ok(U64Value(StripZeros(d)))
        ELSE Err(<<"ParseIntError">>)

\* HashMap::new() / HashMap::clear()
EmptyMap == <<>>

\* HashMap::insert
MapInsert(m, k, v) ==
    [x \in DOMAIN m \cup {k} |-> IF x = k THEN v ELSE m[x]]

\* MapNotCleared: the block's accumulator is kept across the blank line
MapNotCleared(m) == m

\* map.clear() at a blank line
MapCleared(m) == EmptyMap

\* From<&Record> for TextRecord: the `fields` map
TextRecordFrom(value) ==
    LET t == value.record_type
        flat == CASE t.kind = "Deposit" -> <<S_DEPOSIT, 0, t.to_user_id>>
                  [] t.kind = "Withdrawal" -> <<S_WITHDRAWAL, t.from_user_id, 0>>
                  [] t.kind = "Transfer" ->
                        <<S_TRANSFER, t.from_user_id, t.to_user_id>>
        status == CASE value.status = "Success" -> S_SUCCESS
                    [] value.status = "Failure" -> S_FAILURE
                    [] value.status = "Pending" -> S_PENDING
    IN  (K_TX_ID :> U64ToString(value.id))
        @@ (K_TX_TYPE :> flat[1])
        @@ (K_FROM_USER_ID :> U64ToString(flat[2]))
        @@ (K_TO_USER_ID :> U64ToString(flat[3]))
        @@ (K_AMOUNT :> U64ToString(value.amount))
        @@ (K_TIMESTAMP :> U64ToString(value.timestamp))
        @@ (K_STATUS :> status)
        @@ (K_DESCRIPTION :> QUOTE \o value.description \o QUOTE)

\* FieldValueOrDefault: an absent key reads as "0" (unwrap_or instead of
\* ok_or_else)
FieldValueOrDefault(m, key) ==
    IF key \in DOMAIN m THEN Ok(m[key]) ELSE Ok(<<48>>)

\* field_value
FieldValue(m, key) ==
    IF key \in DOMAIN m THEN Ok(m[key]) ELSE Err(TextFieldNotFound(key))

\* field_value(..).and_then(|v| v.parse::<u64>().map_err(..))
U64Field(m, key) ==
    LET v == FieldValue(m, key) IN
    IF ~v.ok THEN v
    ELSE LET n == ParseU64(v.val) IN
         IF n.ok THEN n ELSE Err(TextUnexpectedFieldValue(key, v.val))

\* TypeFieldIgnoreCase: "deposit" is taken for DEPOSIT (eq_ignore_ascii_case)
TypeFieldIgnoreCase(m, from_user_id, to_user_id) ==
    LET v == FieldValue(m, K_TX_TYPE) IN
    IF ~v.ok THEN v
    ELSE IF v.val \in {S_DEPOSIT, <<100, 101, 112, 111, 115, 105, 116>>}
    THEN Ok(Deposit(to_user_id))
    ELSE IF v.val = S_WITHDRAWAL THEN Ok(Withdrawal(from_user_id))
    ELSE IF v.val = S_TRANSFER THEN Ok(Transfer(from_user_id, to_user_id))
    ELSE Err(TextUnexpectedFieldValue(K_TX_TYPE, v.val))

\* the match on TX_TYPE
TypeField(m, from_user_id, to_user_id) ==
    LET v == FieldValue(m, K_TX_TYPE) IN
    IF ~v.ok THEN v
    ELSE IF v.val = S_DEPOSIT THEN Ok(Deposit(to_user_id))
    ELSE IF v.val = S_WITHDRAWAL THEN Ok(Withdrawal(from_user_id))
    ELSE IF v.val = S_TRANSFER THEN Ok(Transfer(from_user_id, to_user_id))
    ELSE Err(TextUnexpectedFieldValue(K_TX_TYPE, v.val))

\* the match on STATUS
StatusField(m) ==
    LET v == FieldValue(m, K_STATUS) IN
    IF ~v.ok THEN v
    ELSE IF v.val = S_SUCCESS THEN Ok("Success")
    ELSE IF v.val = S_PENDING THEN Ok("Pending")
    ELSE IF v.val = S_FAILURE THEN Ok("Failure")
    ELSE Err(TextUnexpectedFieldValue(K_STATUS, v.val))

\* DescriptionFieldNoEndCheck: the closing quote is not tested
DescriptionFieldNoEndCheck(m) ==
    LET v == FieldValue(m, K_DESCRIPTION) IN
    IF ~v.ok THEN v
    ELSE IF Len(AsBytes(v.val)) >= 2 /\ v.val[1] = 34
    THEN Ok(SubSeq(v.val, 2, Len(v.val) - 1))
    ELSE Err(TextUnexpectedFieldValue(K_DESCRIPTION, v.val))

\* the DESCRIPTION value without its outer quotes
DescriptionField(m) ==
    LET v == FieldValue(m, K_DESCRIPTION) IN
    IF ~v.ok THEN v
    ELSE IF /\ Len(AsBytes(v.val)) >= 2
            /\ v.val[1] = 34
            /\ v.val[Len(v.val)] = 34
    THEN Ok(SubSeq(v.val, 2, Len(v.val) - 1))
    ELSE Err(TextUnexpectedFieldValue(K_DESCRIPTION, v.val))

\* TryInto<Record> for TextRecord
TextRecordTryInto(fields) ==
    LET id == U64Field(fields, K_TX_ID)
        from_user_id == U64Field(fields, K_FROM_USER_ID)
        to_user_id == U64Field(fields, K_TO_USER_ID)
        amount == U64Field(fields, K_AMOUNT)
        timestamp == U64Field(fields, K_TIMESTAMP)
        status == StatusField(fields)
        description == DescriptionField(fields)
    IN  IF ~id.ok THEN id
        ELSE IF ~from_user_id.ok THEN from_user_id
        ELSE IF ~to_user_id.ok THEN to_user_id
        ELSE LET record_type ==
                     TypeField(fields, from_user_id.val, to_user_id.val)
             IN  IF ~record_type.ok THEN record_type
                 ELSE IF ~amount.ok THEN amount
                 ELSE IF ~timestamp.ok THEN timestamp
                 ELSE IF ~status.ok THEN status
                 ELSE IF ~description.ok THEN description
                 ELSE Ok(RecordNew(id.val, record_type.val, amount.val,
                                   timestamp.val, status.val, description.val))

\* the order of the vec! in From<&Record> for TextRecord
KeyOrder ==
    <<K_TX_ID, K_TX_TYPE, K_FROM_USER_ID, K_TO_USER_ID, K_AMOUNT, K_TIMESTAMP,
      K_STATUS, K_DESCRIPTION>>

\* iteration orders of a HashMap<String, String> with these 8 keys: the order
\* is arbitrary and may differ from one map to the next; two of the 8! orders
\* are sampled
FieldOrders == {KeyOrder, [i \in 1..8 |-> KeyOrder[9 - i]]}

\* format!("{k}: {v}\n").as_bytes()
TextLine(k, v) == AsBytes(k \o DELIMITER \o v \o LF)

\* the writes of one iteration of TextRecordWriter::write_all, the fields
\* iterated in `order`
TextBlock(record, order) ==
    LET fields == TextRecordFrom(record)
    IN  Flatten([j \in 1..Len(order) |-> TextLine(order[j], fields[order[j]])])
        \o AsBytes(LF)

\* TextRecordWriter::write_all on a writer that accepts every byte
TextWriteAll(rs, orders) ==
    Flatten([i \in 1..Len(rs) |-> TextBlock(rs[i], orders[i])])

\* index of the first line feed of b at or after i, 0 if there is none
RECURSIVE NextLF(_, _)
NextLF(b, i) ==
    IF i > Len(b) THEN 0
    ELSE IF b[i] = 10 THEN i
    ELSE NextLF(b, i + 1)

RECURSIVE RawLines(_, _)
RawLines(b, i) ==
    IF i > Len(b) THEN <<>>
    ELSE LET j == NextLF(b, i) IN
         IF j = 0 THEN <<SubSeq(b, i, Len(b))>>
         ELSE <<SubSeq(b, i, j - 1)>> \o RawLines(b, j + 1)

StripCR(l) ==
    IF l # <<>> /\ l[Len(l)] = 13 THEN SubSeq(l, 1, Len(l) - 1) ELSE l

\* BufReader::new(r).lines(): one io::Result<String> per line, the line
\* terminator ("\n" or "\r\n") removed
TextLines(b) ==
    LET raw == RawLines(b, 1)
    IN  [i \in 1..Len(raw) |-> FromUtf8(StripCR(raw[i]))]

\* SplitOnceLast: the line is split at the last ": " (rsplit_once)
SplitOnceLast(line) ==
    LET S == {i \in 1..(Len(line) - 1) : line[i] = 58 /\ line[i + 1] = 32}
    IN  IF S = {} THEN [found |-> FALSE]
        ELSE LET i == CHOOSE j \in S : \A k \in S : j >= k
             IN  [found |-> TRUE,
                  key |-> SubSeq(line, 1, i - 1),
                  value |-> SubSeq(line, i + 2, Len(line))]

\* SplitOnceColon: the line is split at the first ':' and the character after
\* it is dropped, whatever it is
SplitOnceColon(line) ==
    LET S == {i \in 1..Len(line) : line[i] = 58}
    IN  IF S = {} THEN [found |-> FALSE]
        ELSE LET i == CHOOSE j \in S : \A k \in S : j <= k
             IN  [found |-> TRUE,
                  key |-> SubSeq(line, 1, i - 1),
                  value |-> SubSeq(line, i + 2, Len(line))]

\* line.split_once(DELIMITER): split at the first ": "
SplitOnce(line) ==
    LET S == {i \in 1..(Len(line) - 1) : line[i] = 58 /\ line[i + 1] = 32}
    IN  IF S = {} THEN [found |-> FALSE]
        ELSE LET i == CHOOSE j \in S : \A k \in S : j <= k
             IN  [found |-> TRUE,
                  key |-> SubSeq(line, 1, i - 1),
                  value |-> SubSeq(line, i + 2, Len(line))]

\* "Pay, invoice #1"
DescPayInvoice ==
    <<80, 97, 121, 44, 32, 105, 110, 118, 111, 105, 99, 101, 32, 35, 49>>
\* "#k: v"
DescHashColon == <<35, 107, 58, 32, 118>>
\* "a\nb"
DescTwoLines == <<97, 10, 98>>

TxtRecordPool ==
    {RecordNew(0, Deposit(7), 0, 0, "Success", d) :
        d \in {DescPayInvoice, DescHashColon}}
    \cup {RecordNew(258, Withdrawal(66000), 1000, 2147483647, "Failure", d) :
        d \in {DescPayInvoice, DescHashColon}}
    \cup {RecordNew(1, Transfer(7, 66000), 5, 6, "Pending", d) :
        d \in {DescPayInvoice, <<>>, DescTwoLines}}

\* the pieces hand-written text files are made of: a blank line, the comment
\* "# c", the lines "TX_ID: 1" and "STATUS: PENDING", and the eight lines of
\* a complete block (which holds both these keys)
TxtItems ==
    {AsBytes(LF),
     AsBytes(<<35, 32, 99>> \o LF),
     TextLine(K_TX_ID, <<49>>),
     TextLine(K_STATUS, S_PENDING),
     Flatten([j \in 1..8 |->
         TextLine(KeyOrder[j],
                  TextRecordFrom(RecordNew(1, Transfer(7, 66000), 5, 6,
                                           "Pending", <<97>>))[KeyOrder[j]])])}

TxtFiles == {Flatten(items) : items \in SeqsUpTo(TxtItems, MaxItems)}

\* the block every hand-written defective block is derived from
TxtBaseFields ==
    TextRecordFrom(RecordNew(1, Transfer(7, 66000), 5, 6, "Pending", <<97>>))

\* a key left out of a block / a key given the value v
Absent == [absent |-> TRUE, val |-> <<>>]
Value(v) == [absent |-> FALSE, val |-> v]

\* "18446744073709551616", u64::MAX + 1
U64_OVER_DIGITS ==
    <<49, 56, 52, 52, 54, 55, 52, 52, 48, 55, 51, 55, 48, 57, 53, 53, 49, 54,
      49, 54>>

\* what a hand-written block may hold for a key instead of the base value:
\* nothing, or "incorrect", 2^64, 2^64-1, "-1", " 5", "5: 6", "abc",
\* "UNKNOWN", "deposit", "DEPOSIT", "Success", "SUCCESS", and for DESCRIPTION
\* `"`, `""`, `abc`, `"abc`
TxtAlternatives ==
    (K_TX_ID :> {Absent, Value(<<105, 110, 99, 111, 114, 114, 101, 99, 116>>),
                 Value(U64_OVER_DIGITS), Value(U64_MAX_DIGITS)})
    @@ (K_FROM_USER_ID :> {Absent, Value(<<45, 49>>)})
    @@ (K_TO_USER_ID :> {Absent, Value(<<32, 53>>)})
    @@ (K_TX_TYPE :> {Absent, Value(<<85, 78, 75, 78, 79, 87, 78>>),
                      Value(<<100, 101, 112, 111, 115, 105, 116>>),
                      Value(S_DEPOSIT)})
    @@ (K_AMOUNT :> {Absent, Value(U64_OVER_DIGITS), Value(<<53, 58, 32, 54>>)})
    @@ (K_TIMESTAMP :> {Absent, Value(<<97, 98, 99>>)})
    @@ (K_STATUS :> {Absent, Value(<<85, 78, 75, 78, 79, 87, 78>>),
                     Value(<<83, 117, 99, 99, 101, 115, 115>>),
                     Value(S_SUCCESS)})
    @@ (K_DESCRIPTION :> {Absent, Value(<<34>>), Value(<<34, 34>>),
                          Value(<<97, 98, 99>>), Value(<<34, 97, 98, 99>>)})

KeySet == {KeyOrder[j] : j \in 1..8}

\* the ways of changing at most MaxDefects keys of the base block
TxtChanges ==
    UNION {{f \in [S -> UNION {TxtAlternatives[k] : k \in S}] :
                \A k \in S : f[k] \in TxtAlternatives[k]} :
           S \in {T \in SUBSET KeySet : Cardinality(T) <= MaxDefects}}

\* the KEY: VALUE lines of the base block changed by f, keys in `order`
TxtChangedBlock(f, order) ==
    Flatten([j \in 1..8 |->
        LET k == order[j] IN
        IF k \in DOMAIN f
        THEN IF f[k].absent THEN <<>> ELSE TextLine(k, f[k].val)
        ELSE TextLine(k, TxtBaseFields[k])])

\* lines that are not KEY: VALUE lines of the base block: "# c", "#TX_ID: 9",
\* "TX_ID:1", "garbage", " # c", "NOTE: a: b", ": v"
TxtExtraLines ==
    {<<35, 32, 99>>, <<35>> \o K_TX_ID \o <<58, 32, 57>>,
     K_TX_ID \o <<58, 49>>, <<103, 97, 114, 98, 97, 103, 101>>,
     <<32, 35, 32, 99>>, <<78, 79, 84, 69, 58, 32, 97, 58, 32, 98>>,
     <<58, 32, 118>>}

\* the base block with the line x put in after its first n lines
TxtBlockWithExtra(x, n, order) ==
    Flatten([j \in 1..9 |->
        IF j <= n THEN TextLine(order[j], TxtBaseFields[order[j]])
        ELSE IF j = n + 1 THEN AsBytes(x \o LF)
        ELSE TextLine(order[j - 1], TxtBaseFields[order[j - 1]])])

\* a hand-written block alone or followed by a blank line; the blocks with
\* fewer than MaxDefects changes and those with an extra line also after a
\* complete block and a blank line
TxtBlockFiles ==
    LET base == TxtChangedBlock(<<>>, KeyOrder)
        last == {TxtChangedBlock(f, o) : f \in TxtChanges, o \in FieldOrders}
        second ==
            {TxtChangedBlock(f, o) :
                f \in {g \in TxtChanges : Cardinality(DOMAIN g) < MaxDefects},
                o \in FieldOrders}
            \cup {TxtBlockWithExtra(x, n, o) :
                    x \in TxtExtraLines, n \in {0, 4, 8}, o \in FieldOrders}
    IN  UNION {{b, b \o AsBytes(LF)} : b \in last \cup second}
        \cup {base \o AsBytes(LF) \o b : b \in second}

BinIdle ==
    /\ damage = NoDamage
    /\ io_fail = NoFail
    /\ pos = 0
    /\ bin_records = <<>>

TxtInit ==
    /\ hostile \in BOOLEAN
    /\ IF hostile
       THEN /\ pc = "txt_open"
            /\ records = <<>>
            /\ stream \in TxtFiles \cup TxtBlockFiles
       ELSE /\ pc = "txt_write"
            /\ records \in SeqsUpTo(TxtRecordPool, MaxTxtRecs)
            /\ stream = <<>>
    /\ lines = <<>>
    /\ lineno = 0
    /\ map = EmptyMap
    /\ txt_records = <<>>
    /\ result = NoResult
    /\ BinIdle
    /\ CsvIdle
    /\ CmpIdle
    /\ ConvIdle

\* write_all_records(.., Text, records)
TxtWrite ==
    /\ pc = "txt_write"
    /\ \E orders \in [1..Len(records) -> FieldOrders] :
        stream' = TextWriteAll(records, orders)
    /\ pc' = "txt_open"
    /\ UNCHANGED cmpVars
    /\ UNCHANGED convVars
    /\ UNCHANGED <<csvVars, records, hostile, damage, io_fail, pos, bin_records,
                   lines, lineno, map, txt_records, result>>

\* the first statements of TextRecordReader::read_all
TxtOpen ==
    /\ pc = "txt_open"
    /\ lines' = TextLines(stream)
    /\ lineno' = 0
    /\ map' = EmptyMap
    /\ txt_records' = <<>>
    /\ pc' = "txt_read"
    /\ UNCHANGED cmpVars
    /\ UNCHANGED convVars
    /\ UNCHANGED <<csvVars, records, stream, hostile, damage, io_fail, pos,
                   bin_records, result>>

\* one iteration of `for line in reader.lines()`
TxtLine ==
    /\ pc = "txt_read"
    /\ lineno < Len(lines)
    /\ lineno' = lineno + 1
    /\ LET line_res == lines[lineno + 1]
           line == line_res.val
       IN  IF ~line_res.ok
           THEN /\ result' = Err(TextReadError)
                /\ pc' = "done"
                /\ UNCHANGED <<map, txt_records>>
           ELSE IF line = <<>>
           THEN LET text_record == TextRecordTryInto(map) IN
                /\ map' = MapCleared(map)
                /\ IF text_record.ok
                   THEN /\ txt_records' = Append(txt_records, text_record.val)
                        /\ UNCHANGED <<pc, result>>
                   ELSE /\ result' = text_record
                        /\ pc' = "done"
                        /\ UNCHANGED txt_records
           ELSE IF line[1] = 35
           THEN UNCHANGED <<pc, map, txt_records, result>>
           ELSE LET kv == SplitOnce(line) IN
                IF ~kv.found
                THEN /\ result' = Err(TextUnableToParse(line))
                     /\ pc' = "done"
                     /\ UNCHANGED <<map, txt_records>>
                ELSE IF kv.key \in DOMAIN map
                THEN /\ result' = Err(TextDuplicateField(kv.key))
                     /\ pc' = "done"
                     /\ UNCHANGED <<map, txt_records>>
                ELSE /\ map' = MapInsert(map, kv.key, kv.value)
                     /\ UNCHANGED <<pc, txt_records, result>>
    /\ UNCHANGED cmpVars
    /\ UNCHANGED convVars
    /\ UNCHANGED <<csvVars, records, stream, hostile, damage, io_fail, pos,
                   bin_records, lines>>

\* the end of TextRecordReader::read_all, after the last line
TxtEnd ==
    /\ pc = "txt_read"
    /\ lineno = Len(lines)
    /\ pc' = "done"
    /\ IF DOMAIN map # {}
       THEN LET text_record == TextRecordTryInto(map) IN
            IF text_record.ok
            THEN /\ txt_records' = Append(txt_records, text_record.val)
                 /\ result' = Ok(txt_records')
            ELSE /\ result' = text_record
                 /\ UNCHANGED txt_records
       ELSE /\ result' = Ok(txt_records)
            /\ UNCHANGED txt_records
    /\ UNCHANGED cmpVars
    /\ UNCHANGED convVars
    /\ UNCHANGED <<csvVars, records, stream, hostile, damage, io_fail, pos,
                   bin_records, lines, lineno, map>>

TxtNext ==
    \/ TxtWrite
    \/ TxtOpen
    \/ TxtLine
    \/ TxtEnd

SpecTxt == TxtInit /\ [][TxtNext]_vars

----------------------------------------------------------------------------
(* Properties of the text codec *)

IsAscii(d) == \A i \in 1..Len(d) : d[i] < 128
HasQuote(d) == \E i \in 1..Len(d) : d[i] = 34
HasLineFeed(d) == \E i \in 1..Len(d) : d[i] = 10

\* C2 (as claimed): text round trip for every record sequence whose
\* descriptions are ASCII without a double quote: reading back what write_all
\* wrote succeeds and returns the same records in the same order
C2_TxtRoundTripAsciiNoQuote ==
    (/\ pc = "done"
     /\ ~hostile
     /\ \A i \in 1..Len(records) :
            IsAscii(records[i].description) /\ ~HasQuote(records[i].description))
    => result = Ok(records)

\* C2 (amended): text round trip for every record sequence whose descriptions
\* are ASCII without a double quote and without a line feed; commas, '#',
\* colons and ": " are recovered exactly
C2_TxtRoundTripOneLine ==
    (/\ pc = "done"
     /\ ~hostile
     /\ \A i \in 1..Len(records) :
            /\ IsAscii(records[i].description)
            /\ ~HasQuote(records[i].description)
            /\ ~HasLineFeed(records[i].description))
    => result = Ok(records)

\* "Pay, invoice #1" then "#k: v", both recovered
C2_Witness ==
    /\ pc = "done"
    /\ ~hostile
    /\ Len(records) = 2
    /\ records[1].description = DescPayInvoice
    /\ records[2].description = DescHashColon
    /\ records[1].record_type.kind = "Withdrawal"
    /\ result = Ok(records)

IsKvLine(l) == l # <<>> /\ l[1] # 35 /\ SplitOnce(l).found

\* index of the last empty line among the first n lines, 0 if there is none
LastBlank(ls, n) ==
    LET S == {i \in 1..n : ls[i].val = <<>>}
    IN  IF S = {} THEN 0 ELSE CHOOSE i \in S : \A k \in S : i >= k

\* the keys of the KEY: VALUE lines met among the first n lines since the
\* last empty line
KeysSince(ls, n) ==
    {SplitOnce(ls[i].val).key :
        i \in {j \in (LastBlank(ls, n) + 1)..n : IsKvLine(ls[j].val)}}

\* C9 (as claimed): a blank line met while no KEY: VALUE line was accumulated
\* since the previous block boundary produces neither a record nor an error,
\* so an input of comment lines and blank lines only decodes to no records
C9_BlankWithoutPendingIsNoOp ==
    /\ (/\ pc = "done"
        /\ lineno >= 1
        /\ lines[lineno].val = <<>>
        /\ KeysSince(lines, lineno - 1) = {})
        => result.ok
    /\ (/\ pc = "done"
        /\ hostile
        /\ \A i \in 1..Len(lines) : ~IsKvLine(lines[i].val))
        => result = Ok(<<>>)

\* C10: the duplicate-field error naming KEY is returned exactly when a
\* KEY: VALUE line repeats a key met since the last blank line; the
\* accumulator holds exactly the keys met since the last blank line, so a
\* blank line resets it and a comment line does not
C10_DuplicatePerBlock ==
    /\ pc = "txt_read" => DOMAIN map = KeysSince(lines, lineno)
    /\ (pc = "done" /\ lineno >= 1 /\ IsKvLine(lines[lineno].val)) =>
        LET key == SplitOnce(lines[lineno].val).key IN
        (result = Err(TextDuplicateField(key)))
            <=> (key \in KeysSince(lines, lineno - 1))
    /\ (pc = "done" /\ ~result.ok /\ result.err[1] = "TextDuplicateField")
        => (lineno >= 1 /\ IsKvLine(lines[lineno].val))

\* a complete block with STATUS, a blank line, then STATUS, a comment, STATUS:
\* the third STATUS is the duplicate
C10_Witness ==
    /\ pc = "done"
    /\ hostile
    /\ Len(txt_records) = 1
    /\ lineno = 12
    /\ lines[9].val = <<>>
    /\ lines[10].val = K_STATUS \o DELIMITER \o S_PENDING
    /\ lines[12].val = lines[10].val
    /\ lines[11].val = <<35, 32, 99>>
    /\ result = Err(TextDuplicateField(K_STATUS))

\* the order in which TryInto<Record> for TextRecord looks the keys up
CheckOrder ==
    <<K_TX_ID, K_FROM_USER_ID, K_TO_USER_ID, K_TX_TYPE, K_AMOUNT, K_TIMESTAMP,
      K_STATUS, K_DESCRIPTION>>

CheckIndex(k) == CHOOSE j \in 1..8 : CheckOrder[j] = k

\* the value of key k in the block open after the first n lines
BlockValue(ls, n, k) ==
    LET i == CHOOSE j \in (LastBlank(ls, n) + 1)..n :
                 IsKvLine(ls[j].val) /\ SplitOnce(ls[j].val).key = k
    IN  SplitOnce(ls[i].val).value

\* v is a decimal unsigned integer of at most 64 bits ('+' allowed in front)
IsU64Text(v) ==
    LET d == IF v # <<>> /\ Head(v) = 43 THEN Tail(v) ELSE v
    IN  d # <<>> /\ IsDigits(d) /\ FitsU64(d)

\* v is wrapped in double quotes
IsWrapped(v) == Len(v) >= 2 /\ v[1] = 34 /\ v[Len(v)] = 34

\* v is a value the decoder accepts for key k
IsValidFor(k, v) ==
    CASE k = K_TX_TYPE -> v \in {S_DEPOSIT, S_WITHDRAWAL, S_TRANSFER}
      [] k = K_STATUS -> v \in {S_SUCCESS, S_FAILURE, S_PENDING}
      [] k = K_DESCRIPTION -> IsWrapped(v)
      [] OTHER -> IsU64Text(v)

\* the reader is about to convert a non-empty block: the next line is blank
\* or the input is at its end
BlockEnds ==
    /\ pc = "txt_read"
    /\ KeysSince(lines, lineno) # {}
    /\ \/ lineno = Len(lines)
       \/ lineno < Len(lines) /\ lines[lineno + 1].val = <<>>

MissingKeys == KeySet \ KeysSince(lines, lineno)

\* key k of the open block is present with a value the decoder accepts
PresentAndValid(k) ==
    /\ k \in KeysSince(lines, lineno)
    /\ IsValidFor(k, BlockValue(lines, lineno, k))

\* every key looked up before k is present with a valid value
EarlierChecksPass(k) ==
    \A j \in 1..(CheckIndex(k) - 1) : PresentAndValid(CheckOrder[j])

\* C11 (as claimed): when a block ends with a required key absent, read_all
\* returns the field-not-found error naming an absent key (and so no records),
\* whatever the order of the block's lines
C11_MissingKeyIsFieldNotFound ==
    [][(BlockEnds /\ MissingKeys # {}) =>
        /\ pc' = "done"
        /\ \E k \in MissingKeys : result' = Err(TextFieldNotFound(k))]_vars

\* C11 (amended): when a block ends with a required key absent, read_all
\* fails and returns no records; the error is field-not-found naming the first
\* absent key in lookup order if every key looked up before it holds a valid
\* value, and otherwise the error of an earlier key; a field-not-found error
\* always names an absent key
C11_MissingKeyFailsInLookupOrder ==
    [][(BlockEnds /\ MissingKeys # {}) =>
        LET k == CheckOrder[CHOOSE j \in 1..8 :
                     /\ CheckOrder[j] \in MissingKeys
                     /\ \A i \in 1..(j - 1) : CheckOrder[i] \notin MissingKeys]
        IN  /\ pc' = "done"
            /\ ~result'.ok
            /\ IF EarlierChecksPass(k)
               THEN result' = Err(TextFieldNotFound(k))
               ELSE /\ result'.err[1] # "TextFieldNotFound"
                    /\ CheckIndex(result'.err[2]) < CheckIndex(k)]_vars

\* a block without TX_TYPE, keys in reverse order, after a complete block:
\* TX_TYPE is named and the first block's record is not returned
C11_Witness ==
    /\ pc = "done"
    /\ hostile
    /\ Len(txt_records) = 1
    /\ lineno = 16
    /\ lines[10].val = K_DESCRIPTION \o DELIMITER \o <<34, 97, 34>>
    /\ lines[16].val = K_TX_ID \o DELIMITER \o <<49>>
    /\ result = Err(TextFieldNotFound(K_TX_TYPE))

IntKeys == {K_TX_ID, K_FROM_USER_ID, K_TO_USER_ID, K_AMOUNT, K_TIMESTAMP}

\* C12 (as claimed): when a block ends holding, for one of the five integer
\* keys, a value that is not an unsigned 64-bit decimal, read_all returns the
\* unexpected-field-value error with that key and the raw value; a value from
\* 0 to 2^64-1 never gives that error
C12_BadIntegerIsFieldValueError ==
    [][BlockEnds =>
        \A k \in IntKeys \cap KeysSince(lines, lineno) :
            LET v == BlockValue(lines, lineno, k) IN
            IF IsU64Text(v)
            THEN result' # Err(TextUnexpectedFieldValue(k, v))
            ELSE pc' = "done" /\ result' = Err(TextUnexpectedFieldValue(k, v))]_vars

\* C12 (amended): a block holding an invalid value for an integer key makes
\* read_all fail; the error is unexpected-field-value with that key and the
\* raw value when every key looked up before it is present and valid; a value
\* from 0 to 2^64-1 never gives that error
C12_BadIntegerFailsInLookupOrder ==
    [][BlockEnds =>
        \A k \in IntKeys \cap KeysSince(lines, lineno) :
            LET v == BlockValue(lines, lineno, k) IN
            IF IsU64Text(v)
            THEN result' # Err(TextUnexpectedFieldValue(k, v))
            ELSE /\ pc' = "done"
                 /\ ~result'.ok
                 /\ EarlierChecksPass(k) =>
                        result' = Err(TextUnexpectedFieldValue(k, v))]_vars

\* TX_ID: 18446744073709551615 is accepted and AMOUNT: 18446744073709551616
\* of the same block is rejected
C12_Witness ==
    /\ pc = "done"
    /\ hostile
    /\ lineno = 8
    /\ lines[1].val = K_TX_ID \o DELIMITER \o U64_MAX_DIGITS
    /\ result = Err(TextUnexpectedFieldValue(K_AMOUNT, U64_OVER_DIGITS))

\* the step appends a record to the reader's Vec<Record>
RecordPushed == Len(txt_records') = Len(txt_records) + 1

\* C14 (as claimed): when a block ends, its DESCRIPTION value is accepted if
\* and only if it is at least two characters long and starts and ends with a
\* double quote; the record's description is the value without that outer
\* pair; any other value gives the unexpected-field-value error with
\* DESCRIPTION and the raw value
C14_DescriptionQuoting ==
    [][(BlockEnds /\ K_DESCRIPTION \in KeysSince(lines, lineno)) =>
        LET v == BlockValue(lines, lineno, K_DESCRIPTION) IN
        IF IsWrapped(v)
        THEN /\ result' # Err(TextUnexpectedFieldValue(K_DESCRIPTION, v))
             /\ RecordPushed =>
                    txt_records'[Len(txt_records')].description
                        = SubSeq(v, 2, Len(v) - 1)
        ELSE /\ pc' = "done"
             /\ result' = Err(TextUnexpectedFieldValue(K_DESCRIPTION, v))]_vars

\* C14 (amended): as claimed, the error for a value that is not wrapped being
\* the one of DESCRIPTION when the seven keys looked up before it are present
\* and valid; a block with such a value fails in every case
C14_DescriptionQuotingInLookupOrder ==
    [][(BlockEnds /\ K_DESCRIPTION \in KeysSince(lines, lineno)) =>
        LET v == BlockValue(lines, lineno, K_DESCRIPTION) IN
        IF IsWrapped(v)
        THEN /\ result' # Err(TextUnexpectedFieldValue(K_DESCRIPTION, v))
             /\ EarlierChecksPass(K_DESCRIPTION) <=> RecordPushed
             /\ RecordPushed =>
                    txt_records'[Len(txt_records')].description
                        = SubSeq(v, 2, Len(v) - 1)
        ELSE /\ pc' = "done"
             /\ ~result'.ok
             /\ EarlierChecksPass(K_DESCRIPTION) =>
                    result' = Err(TextUnexpectedFieldValue(K_DESCRIPTION, v))]_vars

\* DESCRIPTION: "a" decoded to the description a, then a block whose
\* DESCRIPTION is the single character " rejected
C14_Witness ==
    /\ pc = "done"
    /\ hostile
    /\ Len(txt_records) = 1
    /\ txt_records[1].description = <<97>>
    /\ lineno = 17
    /\ lines[8].val = K_DESCRIPTION \o DELIMITER \o <<34, 97, 34>>
    /\ lines[17].val = K_DESCRIPTION \o DELIMITER \o <<34>>
    /\ result = Err(TextUnexpectedFieldValue(K_DESCRIPTION, <<34>>))

\* positions of the separator ": " in line l
SeparatorsOf(l) == {i \in 1..(Len(l) - 1) : l[i] = 58 /\ l[i + 1] = 32}

\* C15: taking a line that is not empty, a line starting with '#' changes
\* nothing; any other line without ": " ends read_all with the parse error
\* carrying the line; a line with ": " is split at its first ": " into key and
\* value, which go into the open block unless the key repeats
C15_LineShape ==
    [][(pc = "txt_read" /\ lineno < Len(lines)
            /\ lines[lineno + 1].val # <<>>) =>
        LET l == lines[lineno + 1].val IN
        IF l[1] = 35
        THEN UNCHANGED <<pc, map, txt_records, result>>
        ELSE IF SeparatorsOf(l) = {}
        THEN pc' = "done" /\ result' = Err(TextUnableToParse(l))
        ELSE LET i == CHOOSE j \in SeparatorsOf(l) :
                          \A k \in SeparatorsOf(l) : j <= k
                 key == SubSeq(l, 1, i - 1)
                 value == SubSeq(l, i + 2, Len(l))
             IN  IF key \in DOMAIN map
                 THEN result' = Err(TextDuplicateField(key))
                 ELSE /\ UNCHANGED <<pc, txt_records, result>>
                      /\ DOMAIN map' = DOMAIN map \cup {key}
                      /\ map'[key] = value
                      /\ \A x \in DOMAIN map : map'[x] = map[x]]_vars

\* after a complete block, a comment-like line that starts with a space is
\* the fifth line of the second block: it is not a comment
C15_Witness ==
    /\ pc = "done"
    /\ hostile
    /\ lineno = 14
    /\ Len(txt_records) = 1
    /\ lines[14].val = <<32, 35, 32, 99>>
    /\ DOMAIN map = {K_TX_ID, K_TX_TYPE, K_FROM_USER_ID, K_TO_USER_ID}
    /\ result = Err(TextUnableToParse(<<32, 35, 32, 99>>))

\* C16 (as claimed): for every record write_all emits the eight KEY: VALUE
\* lines in the order TX_ID, TX_TYPE, FROM_USER_ID, TO_USER_ID, AMOUNT,
\* TIMESTAMP, STATUS, DESCRIPTION, the description in double quotes, then one
\* blank line, so the output is a function of the record sequence
C16_TextEncodeLayout ==
    (pc = "txt_open" /\ ~hostile) =>
        stream = Flatten([i \in 1..Len(records) |->
                    Flatten([j \in 1..8 |->
                        AsBytes(KeyOrder[j] \o <<58, 32>>
                                \o (IF KeyOrder[j] = K_DESCRIPTION
                                    THEN <<34>> \o records[i].description
                                         \o <<34>>
                                    ELSE TextRecordFrom(records[i])[KeyOrder[j]])
                                \o <<10>>)])
                    \o <<10>>])

----------------------------------------------------------------------------
(* CSV codec (csv_format.rs); the csv crate with its default settings:      *)
(* header row, ',' delimiter, '"' quote doubled inside quoted fields,       *)
(* fields quoted when necessary, "\n" written after each row, any of        *)
(* "\n", "\r", "\r\n" read as a row terminator, empty lines skipped, all    *)
(* rows of the length of the header row                                     *)

\* the serde names of CsvRecord's fields, in declaration order
CsvColumns ==
    <<K_TX_ID, K_TX_TYPE, K_FROM_USER_ID, K_TO_USER_ID, K_AMOUNT, K_TIMESTAMP,
      K_STATUS, K_DESCRIPTION>>

\* CsvRecordFromSwappedIds: a Withdrawal's user id is stored as to_user_id
CsvRecordFromSwappedIds(value) ==
    LET t == value.record_type
        flat == CASE t.kind = "Deposit" -> <<S_DEPOSIT, 0, t.to_user_id>>
                  [] t.kind = "Withdrawal" -> <<S_WITHDRAWAL, 0, t.from_user_id>>
                  [] t.kind = "Transfer" ->
                        <<S_TRANSFER, t.from_user_id, t.to_user_id>>
    IN  [id |-> value.id,
         record_type |-> flat[1],
         from_user_id |-> flat[2],
         to_user_id |-> flat[3],
         amount |-> value.amount,
         timestamp |-> value.timestamp,
         status |-> CASE value.status = "Success" -> S_SUCCESS
                      [] value.status = "Failure" -> S_FAILURE
                      [] value.status = "Pending" -> S_PENDING,
         description |-> value.description]

\* From<&Record> for CsvRecord
CsvRecordFrom(value) ==
    LET t == value.record_type
        flat == CASE t.kind = "Deposit" -> <<S_DEPOSIT, 0, t.to_user_id>>
                  [] t.kind = "Withdrawal" -> <<S_WITHDRAWAL, t.from_user_id, 0>>
                  [] t.kind = "Transfer" ->
                        <<S_TRANSFER, t.from_user_id, t.to_user_id>>
    IN  [id |-> value.id,
         record_type |-> flat[1],
         from_user_id |-> flat[2],
         to_user_id |-> flat[3],
         amount |-> value.amount,
         timestamp |-> value.timestamp,
         status |-> CASE value.status = "Success" -> S_SUCCESS
                      [] value.status = "Failure" -> S_FAILURE
                      [] value.status = "Pending" -> S_PENDING,
         description |-> value.description]

\* TryInto<Record> for CsvRecord
CsvRecordTryInto(self) ==
    IF self.record_type \notin {S_DEPOSIT, S_WITHDRAWAL, S_TRANSFER}
    THEN Err(CsvUnexpectedValue(self.record_type))
    ELSE IF self.status \notin {S_SUCCESS, S_PENDING, S_FAILURE}
    THEN Err(CsvUnexpectedValue(self.status))
    ELSE Ok(RecordNew(
            self.id,
            CASE self.record_type = S_DEPOSIT -> Deposit(self.to_user_id)
              [] self.record_type = S_WITHDRAWAL -> Withdrawal(self.from_user_id)
              [] self.record_type = S_TRANSFER ->
                    Transfer(self.from_user_id, self.to_user_id),
            self.amount,
            self.timestamp,
            CASE self.status = S_SUCCESS -> "Success"
              [] self.status = S_PENDING -> "Pending"
              [] self.status = S_FAILURE -> "Failure",
            self.description))

\* the fields writer.serialize(csv_record) writes, as strings
CsvFields(r) ==
    <<U64ToString(r.id), r.record_type, U64ToString(r.from_user_id),
      U64ToString(r.to_user_id), U64ToString(r.amount),
      U64ToString(r.timestamp), r.status, r.description>>

RECURSIVE DoubleQuotes(_)
DoubleQuotes(b) ==
    IF b = <<>> THEN <<>>
    ELSE (IF Head(b) = 34 THEN <<34, 34>> ELSE <<Head(b)>>)
         \o DoubleQuotes(Tail(b))

\* one field as the csv writer emits it: quoted when it holds a quote, a
\* comma, a line feed or a carriage return
CsvWriteField(b) ==
    IF \E i \in 1..Len(b) : b[i] \in {34, 44, 10, 13}
    THEN <<34>> \o DoubleQuotes(b) \o <<34>>
    ELSE b

RECURSIVE CsvJoin(_)
CsvJoin(fs) ==
    IF Len(fs) = 1 THEN CsvWriteField(AsBytes(fs[1]))
    ELSE CsvWriteField(AsBytes(Head(fs))) \o <<44>> \o CsvJoin(Tail(fs))

\* one row with its terminator
CsvWriteRow(fs) == CsvJoin(fs) \o <<10>>

\* CsvRecordWriter::write_all on a writer that accepts every byte: the
\* header row goes out with the first serialize call, so no record, no header
CsvWriteAll(rs) ==
    IF rs = <<>> THEN <<>>
    ELSE CsvWriteRow(CsvColumns)
         \o Flatten([i \in 1..Len(rs) |->
                CsvWriteRow(CsvFields(CsvRecordFrom(rs[i])))])

\* index of the first comma, line feed or carriage return of b at or after
\* i, Len(b) + 1 if there is none
RECURSIVE FieldEnd(_, _)
FieldEnd(b, i) ==
    IF i > Len(b) THEN Len(b) + 1
    ELSE IF b[i] \in {44, 10, 13} THEN i
    ELSE FieldEnd(b, i + 1)

\* index of the quote that closes the quoted field whose content starts at
\* j (a quote not followed by a quote), Len(b) + 1 if there is none
RECURSIVE ClosingQuote(_, _)
ClosingQuote(b, j) ==
    IF j > Len(b) THEN Len(b) + 1
    ELSE IF b[j] # 34 THEN ClosingQuote(b, j + 1)
    ELSE IF j < Len(b) /\ b[j + 1] = 34 THEN ClosingQuote(b, j + 2)
    ELSE j

\* the content of a quoted field: each doubled quote is one quote
RECURSIVE Undouble(_)
Undouble(x) ==
    IF x = <<>> THEN <<>>
    ELSE IF Head(x) = 34 THEN <<34>> \o Undouble(Tail(Tail(x)))
    ELSE <<Head(x)>> \o Undouble(Tail(x))

\* the csv reader's scan of b from index i, the start of a field; r is the
\* row under construction, done the rows read so far. A field that starts
\* with a quote runs to its closing quote, whatever it holds; bytes between
\* the closing quote and the next delimiter are kept as they are; in a field
\* that does not start with a quote, a quote is an ordinary byte
RECURSIVE CsvScan(_, _, _, _)
CsvScan(b, i, r, done) ==
    IF i > Len(b)
    THEN IF r = <<>> THEN done ELSE Append(done, Append(r, <<>>))
    ELSE LET quoted == b[i] = 34
             close == ClosingQuote(b, i + 1)
             e == IF quoted THEN FieldEnd(b, close + 1) ELSE FieldEnd(b, i)
             f == IF quoted
                  THEN Undouble(SubSeq(b, i + 1, close - 1))
                       \o SubSeq(b, close + 1, e - 1)
                  ELSE SubSeq(b, i, e - 1)
         IN  IF e > Len(b) THEN Append(done, Append(r, f))
             ELSE IF b[e] = 44 THEN CsvScan(b, e + 1, Append(r, f), done)
             ELSE IF e = i /\ r = <<>> THEN CsvScan(b, e + 1, <<>>, done)
             ELSE CsvScan(b, e + 1, <<>>, Append(done, Append(r, f)))

\* all rows of the input, the header row first
CsvParse(b) == CsvScan(b, 1, <<>>, <<>>)

\* the bytes of a header cell that names a field of CsvRecord
CsvColumnBytes == [name \in {CsvColumns[k] : k \in 1..8} |-> AsBytes(name)]

\* index of the column whose header is `name`, 0 if there is none
Column(hdr, name) ==
    LET S == {i \in 1..Len(hdr) : hdr[i] = CsvColumnBytes[name]}
    IN  IF S = {} THEN 0 ELSE CHOOSE i \in S : \A k \in S : i <= k

\* a String field of the row
CsvStringField(hdr, row, name) ==
    IF Column(hdr, name) = 0 THEN Err(CsvParseError)
    ELSE LET v == FromUtf8(row[Column(hdr, name)]) IN
         IF v.ok THEN v ELSE Err(CsvParseError)

\* a u64 field of the row
CsvU64Field(hdr, row, name) ==
    LET v == CsvStringField(hdr, row, name) IN
    IF ~v.ok THEN v
    ELSE LET n == ParseU64(v.val) IN
         IF n.ok THEN n ELSE Err(CsvParseError)

\* rdr.deserialize::<CsvRecord>() of one row: the fields are found by the
\* header names; a row of another length than the header row, a missing
\* column and an unparsable integer are csv errors
CsvDeserialize(hdr, row) ==
    LET id == CsvU64Field(hdr, row, K_TX_ID)
        record_type == CsvStringField(hdr, row, K_TX_TYPE)
        from_user_id == CsvU64Field(hdr, row, K_FROM_USER_ID)
        to_user_id == CsvU64Field(hdr, row, K_TO_USER_ID)
        amount == CsvU64Field(hdr, row, K_AMOUNT)
        timestamp == CsvU64Field(hdr, row, K_TIMESTAMP)
        status == CsvStringField(hdr, row, K_STATUS)
        description == CsvStringField(hdr, row, K_DESCRIPTION)
    IN  IF Len(row) # Len(hdr) THEN Err(CsvParseError)
        ELSE IF \/ ~id.ok
                \/ ~record_type.ok
                \/ ~from_user_id.ok
                \/ ~to_user_id.ok
                \/ ~amount.ok
                \/ ~timestamp.ok
                \/ ~status.ok
                \/ ~description.ok
        THEN Err(CsvParseError)
        ELSE Ok([id |-> id.val,
                 record_type |-> record_type.val,
                 from_user_id |-> from_user_id.val,
                 to_user_id |-> to_user_id.val,
                 amount |-> amount.val,
                 timestamp |-> timestamp.val,
                 status |-> status.val,
                 description |-> description.val])

\* `a,"b`, "\r\n", U+00E9 and a closing quote: every character the writer
\* quotes for, a multi-byte character and a quote at the end of the field
DescCsvSpecials == <<97, 44, 34, 98, 13, 10, 233, 34>>

CsvRecordPool ==
    {RecordNew(n[1], t, n[2], n[3], s, n[4]) :
        n \in {<<0, 0, 0, <<>>>>,
               <<258, 1000, 2147483647, DescCsvSpecials>>},
        t \in TypeSamples, s \in RecordStatus}

\* the rows of hand-written CSV files: TX_TYPE among the three literals,
\* "UNKNOWN" and "deposit", STATUS among the three literals, "UNKNOWN" and
\* "Success", AMOUNT "7" or "abc"
CsvSampleRows ==
    {<<<<49>>, t, <<55>>, <<56>>, a, <<57>>, s, <<100>>>> :
        t \in {S_DEPOSIT, S_WITHDRAWAL, S_TRANSFER,
               <<85, 78, 75, 78, 79, 87, 78>>,
               <<100, 101, 112, 111, 115, 105, 116>>},
        s \in {S_SUCCESS, S_FAILURE, S_PENDING,
               <<85, 78, 75, 78, 79, 87, 78>>,
               <<83, 117, 99, 99, 101, 115, 115>>},
        a \in {<<55>>, <<97, 98, 99>>}}

\* hand-written CSV files: the header row alone, the header row with the
\* columns in another order followed by one row, and the header row followed
\* by a sample row, alone or after a valid row
CsvFiles ==
    {CsvWriteRow(CsvColumns),
     CsvWriteRow([i \in 1..8 |-> CsvColumns[9 - i]])
        \o CsvWriteRow(<<QUOTE \o QUOTE, S_PENDING, <<54>>, <<53>>, <<55>>,
                         <<48>>, S_DEPOSIT, <<49>>>>)}
    \cup {CsvWriteRow(CsvColumns) \o CsvWriteRow(r) : r \in CsvSampleRows}
    \cup {CsvWriteRow(CsvColumns)
            \o CsvWriteRow(<<<<50>>, S_TRANSFER, <<55>>, <<56>>, <<55>>,
                             <<57>>, S_SUCCESS, <<>>>>)
            \o CsvWriteRow(r) : r \in CsvSampleRows}

CsvInit ==
    /\ hostile \in BOOLEAN
    /\ IF hostile
       THEN /\ pc = "csv_open"
            /\ records = <<>>
            /\ stream \in CsvFiles
       ELSE /\ pc = "csv_write"
            /\ records \in SeqsUpTo(CsvRecordPool, MaxCsvRecs)
            /\ stream = <<>>
    /\ result = NoResult
    /\ BinIdle
    /\ TextIdle
    /\ CsvIdle
    /\ CmpIdle
    /\ ConvIdle

\* write_all_records(.., Csv, records)
CsvWrite ==
    /\ pc = "csv_write"
    /\ stream' = CsvWriteAll(records)
    /\ pc' = "csv_open"
    /\ UNCHANGED cmpVars
    /\ UNCHANGED convVars
    /\ UNCHANGED <<csvVars, records, hostile, damage, io_fail, pos,
                   bin_records, lines, lineno, map, txt_records, result>>

\* csv::Reader::from_reader(r) and the header row read by the first
\* deserialize
CsvOpen ==
    /\ pc = "csv_open"
    /\ LET all == CsvParse(stream) IN
        /\ headers' = IF all = <<>> THEN <<>> ELSE Head(all)
        /\ rows' = IF all = <<>> THEN <<>> ELSE Tail(all)
    /\ rowno' = 0
    /\ csv_records' = <<>>
    /\ pc' = "csv_read"
    /\ UNCHANGED cmpVars
    /\ UNCHANGED convVars
    /\ UNCHANGED <<records, stream, hostile, damage, io_fail, pos,
                   bin_records, lines, lineno, map, txt_records, result>>

\* one item of the iterator collected by CsvRecordReader::read_all
CsvRow ==
    /\ pc = "csv_read"
    /\ rowno < Len(rows)
    /\ rowno' = rowno + 1
    /\ LET res == CsvDeserialize(headers, rows[rowno + 1])
           rec == CsvRecordTryInto(res.val)
       IN  IF ~res.ok
           THEN /\ result' = res
                /\ pc' = "done"
                /\ UNCHANGED csv_records
           ELSE IF ~rec.ok
           THEN /\ result' = rec
                /\ pc' = "done"
                /\ UNCHANGED csv_records
           ELSE /\ csv_records' = Append(csv_records, rec.val)
                /\ UNCHANGED <<pc, result>>
    /\ UNCHANGED cmpVars
    /\ UNCHANGED convVars
    /\ UNCHANGED <<headers, rows, records, stream, hostile, damage, io_fail,
                   pos, bin_records, lines, lineno, map, txt_records>>

\* the iterator is exhausted: collect returns the records
CsvEnd ==
    /\ pc = "csv_read"
    /\ rowno = Len(rows)
    /\ result' = Ok(csv_records)
    /\ pc' = "done"
    /\ UNCHANGED cmpVars
    /\ UNCHANGED convVars
    /\ UNCHANGED <<csvVars, records, stream, hostile, damage, io_fail, pos,
                   bin_records, lines, lineno, map, txt_records>>

CsvNext ==
    \/ CsvWrite
    \/ CsvOpen
    \/ CsvRow
    \/ CsvEnd

SpecCsv == CsvInit /\ [][CsvNext]_vars

----------------------------------------------------------------------------
(* Properties of the CSV codec *)

\* C3: CSV round trip: reading back what write_all wrote for any record
\* sequence, the empty one included, succeeds and returns the same records in
\* the same order; Record -> CsvRecord -> Record is the identity for the three
\* record types and the three statuses
C3_CsvRoundTrip ==
    /\ (pc = "done" /\ ~hostile) => result = Ok(records)
    /\ (pc = "csv_open" /\ ~hostile) =>
        \A i \in 1..Len(records) :
            CsvRecordTryInto(CsvRecordFrom(records[i])) = Ok(records[i])

\* a Withdrawal whose description needs quoting, then a Transfer
C3_Witness ==
    /\ pc = "done"
    /\ ~hostile
    /\ Len(records) = 2
    /\ records[1].record_type.kind = "Withdrawal"
    /\ records[1].description = DescCsvSpecials
    /\ records[2].record_type.kind = "Transfer"
    /\ records[2].status = "Failure"
    /\ Len(rows) = 2
    /\ result = Ok(records)

----------------------------------------------------------------------------
(* The CSV and the text codec side by side, for the properties that speak   *)
(* of both                                                                  *)

CsvTxtInit == CsvInit \/ TxtInit

CsvTxtNext ==
    \/ CsvNext
    \/ TxtNext

SpecCsvTxt == CsvTxtInit /\ [][CsvTxtNext]_vars

TypeLiterals == {S_DEPOSIT, S_WITHDRAWAL, S_TRANSFER}
StatusLiterals == {S_SUCCESS, S_FAILURE, S_PENDING}

\* the CSV reader is about to deserialize a row
CsvRowNext == pc = "csv_read" /\ rowno < Len(rows)

\* the cell of the next row under the header `name`
CsvCell(name) == FromUtf8(rows[rowno + 1][Column(headers, name)]).val

\* the integer cells of the next row parse
CsvRowDeserializes == \A k \in IntKeys : IsU64Text(CsvCell(k))

CsvRecordPushed == Len(csv_records') = Len(csv_records) + 1

\* the field-value errors of the literals of the next CSV row / of the open
\* text block that are not enumerated
CsvOffending ==
    {Err(CsvUnexpectedValue(x)) :
        x \in ({CsvCell(K_TX_TYPE)} \ TypeLiterals)
              \cup ({CsvCell(K_STATUS)} \ StatusLiterals)}

TxtOffending ==
    {Err(TextUnexpectedFieldValue(k, BlockValue(lines, lineno, k))) :
        k \in {x \in {K_TX_TYPE, K_STATUS} \cap KeysSince(lines, lineno) :
                  ~IsValidFor(x, BlockValue(lines, lineno, x))}}

\* C13 (as claimed): a CSV row or a text block is decoded to a record only if
\* its TX_TYPE is exactly DEPOSIT, WITHDRAWAL or TRANSFER and its STATUS
\* exactly SUCCESS, FAILURE or PENDING; with any other literal decode fails
\* with the field-value error carrying an offending literal (and, in text,
\* the name of its field)
C13_EnumLiterals ==
    [][/\ CsvRowNext =>
            /\ CsvRecordPushed => CsvOffending = {}
            /\ CsvOffending # {} => pc' = "done" /\ result' \in CsvOffending
       /\ BlockEnds =>
            /\ RecordPushed => TxtOffending = {}
            /\ TxtOffending # {} => pc' = "done" /\ result' \in TxtOffending]_vars

\* C13 (amended): the same, the error being the one of the literal when the
\* checks made before it pass: in CSV the row deserializes and, for STATUS,
\* TX_TYPE is enumerated; in text the keys looked up earlier are present and
\* valid. With an offending literal decode fails in every case
C13_EnumLiteralsInCheckOrder ==
    [][/\ CsvRowNext =>
            /\ CsvRecordPushed => CsvOffending = {}
            /\ CsvOffending # {} =>
                /\ pc' = "done"
                /\ ~result'.ok
                /\ CsvRowDeserializes =>
                    result' = Err(CsvUnexpectedValue(
                        IF CsvCell(K_TX_TYPE) \notin TypeLiterals
                        THEN CsvCell(K_TX_TYPE) ELSE CsvCell(K_STATUS)))
       /\ BlockEnds =>
            /\ RecordPushed => TxtOffending = {}
            /\ \A k \in {K_TX_TYPE, K_STATUS} \cap KeysSince(lines, lineno) :
                LET v == BlockValue(lines, lineno, k) IN
                IF IsValidFor(k, v)
                THEN result' # Err(TextUnexpectedFieldValue(k, v))
                ELSE /\ pc' = "done"
                     /\ ~result'.ok
                     /\ EarlierChecksPass(k) =>
                            result' = Err(TextUnexpectedFieldValue(k, v))]_vars

\* the second row of a CSV file has TX_TYPE deposit and STATUS UNKNOWN: the
\* error carries deposit and the first row's record is not returned
C13_Witness ==
    /\ pc = "done"
    /\ hostile
    /\ rowno = 2
    /\ Len(csv_records) = 1
    /\ rows[2][7] = <<85, 78, 75, 78, 79, 87, 78>>
    /\ result = Err(CsvUnexpectedValue(<<100, 101, 112, 111, 115, 105, 116>>))

----------------------------------------------------------------------------
(* The comparer (bin/comparer.rs): main, after both files were read         *)

\* the records the compared collections are made of: ids 1 to 4, and a second
\* record of id 2 with another amount
CmpRecordPool ==
    {RecordNew(1, Deposit(7), 10, 100, "Success", <<97>>),
     RecordNew(2, Transfer(7, 8), 10, 100, "Success", <<97>>),
     RecordNew(2, Transfer(7, 8), 20, 100, "Success", <<97>>),
     RecordNew(3, Withdrawal(8), 10, 100, "Pending", <<>>),
     RecordNew(4, Deposit(7), 10, 100, "Failure", <<97>>)}

\* the collections read_all may return: an id may occur twice, with two
\* different records
CmpInputs ==
    {q \in SeqsUpTo(CmpRecordPool, MaxCmpRecs) :
        \A i, j \in 1..Len(q) : i # j => q[i] # q[j]}

\* RecordsToMapFirstWins: an id already in the map keeps its record
RecordsToMapFirstWins(rs) ==
    [id \in {rs[i].id : i \in 1..Len(rs)} |->
        rs[CHOOSE i \in 1..Len(rs) :
              rs[i].id = id /\ \A j \in 1..Len(rs) : rs[j].id = id => j >= i]]

\* records_to_map: HashMap::from_iter inserts the pairs in order, a later pair
\* replacing an earlier one of the same key
RecordsToMap(rs) ==
    [id \in {rs[i].id : i \in 1..Len(rs)} |->
        rs[CHOOSE i \in 1..Len(rs) :
              rs[i].id = id /\ \A j \in 1..Len(rs) : rs[j].id = id => j <= i]]

\* the orders in which a HashSet or HashMap holding the elements S may
\* iterate: any order, and not the same from one run to the next
IterationOrders(S) ==
    {f \in [1..Cardinality(S) -> S] :
        \A i, j \in 1..Cardinality(S) : i # j => f[i] # f[j]}

\* SymmetricDifference: the elements of exactly one of the sets
SymmetricDifference(a, b) == (a \ b) \cup (b \ a)

\* HashSet::difference
Difference(a, b) == a \ b

\* HashSet::intersection
Intersection(a, b) == a \cap b

\* ids.iter().map(|v| v.to_string()).collect::<Vec<_>>().join(", ")
RECURSIVE JoinIds(_)
JoinIds(ids) ==
    IF ids = <<>> THEN <<>>
    ELSE IF Len(ids) = 1 THEN U64ToString(ids[1])
    ELSE U64ToString(ids[1]) \o <<44, 32>> \o JoinIds(Tail(ids))

CmpInit ==
    /\ pc = "cmp_index"
    /\ records1 \in CmpInputs
    /\ records2 \in CmpInputs
    /\ map1 = <<>>
    /\ map2 = <<>>
    /\ only_in_1 = <<>>
    /\ only_in_2 = <<>>
    /\ different_values = <<>>
    /\ output = <<>>
    /\ records = <<>>
    /\ stream = <<>>
    /\ hostile = FALSE
    /\ result = NoResult
    /\ BinIdle
    /\ TextIdle
    /\ CsvIdle
    /\ ConvIdle

\* let records1 = records_to_map(..); let records2 = records_to_map(..)
CmpIndex ==
    /\ pc = "cmp_index"
    /\ map1' = RecordsToMap(records1)
    /\ map2' = RecordsToMap(records2)
    /\ pc' = "cmp_diff"
    /\ UNCHANGED <<records1, records2, only_in_1, only_in_2,
                   different_values, output>>
    /\ UNCHANGED convVars
    /\ UNCHANGED <<csvVars, records, stream, hostile, damage, io_fail, pos,
                   bin_records, lines, lineno, map, txt_records, result>>

\* keys1, keys2, only_in_1, only_in_2, in_both and different_values: each
\* Vec is collected from an iterator over a HashSet
CmpDiff ==
    /\ pc = "cmp_diff"
    /\ LET keys1 == DOMAIN map1
           keys2 == DOMAIN map2
       IN  /\ only_in_1' \in IterationOrders(Difference(keys1, keys2))
           /\ only_in_2' \in IterationOrders(Difference(keys2, keys1))
           /\ \E in_both \in IterationOrders(Intersection(keys1, keys2)) :
                different_values' =
                    SelectSeq(in_both, LAMBDA id : map1[id] # map2[id])
    /\ pc' = "cmp_print"
    /\ UNCHANGED <<records1, records2, map1, map2, output>>
    /\ UNCHANGED convVars
    /\ UNCHANGED <<csvVars, records, stream, hostile, damage, io_fail, pos,
                   bin_records, lines, lineno, map, txt_records, result>>

\* the println! calls of main
CmpPrint ==
    /\ pc = "cmp_print"
    /\ output' =
        IF only_in_1 = <<>> /\ only_in_2 = <<>> /\ different_values = <<>>
        THEN <<[text |-> "Transactions are the same", ids |-> <<>>]>>
        ELSE (IF only_in_1 # <<>>
              THEN <<[text |-> "Transactions only in file 1: ",
                      ids |-> JoinIds(only_in_1)]>>
              ELSE <<>>)
             \o (IF only_in_2 # <<>>
                 THEN <<[text |-> "Transactions only in file 2: ",
                         ids |-> JoinIds(only_in_2)]>>
                 ELSE <<>>)
             \o (IF different_values # <<>>
                 THEN <<[text |-> "Transactions that differs in file1 and file2: ",
                         ids |-> JoinIds(different_values)]>>
                 ELSE <<>>)
    /\ pc' = "done"
    /\ UNCHANGED <<records1, records2, map1, map2, only_in_1, only_in_2,
                   different_values>>
    /\ UNCHANGED convVars
    /\ UNCHANGED <<csvVars, records, stream, hostile, damage, io_fail, pos,
                   bin_records, lines, lineno, map, txt_records, result>>

CmpNext ==
    \/ CmpIndex
    \/ CmpDiff
    \/ CmpPrint

SpecCmp == CmpInit /\ [][CmpNext]_vars

----------------------------------------------------------------------------
(* Properties of the comparer *)

IdsOf(q) == {q[i].id : i \in 1..Len(q)}
ToSet(v) == {v[i] : i \in 1..Len(v)}
NoRepeat(v) == Cardinality(ToSet(v)) = Len(v)
Occurrences(q, id) == {i \in 1..Len(q) : q[i].id = id}
FirstIndex(q, id) ==
    CHOOSE i \in Occurrences(q, id) : \A j \in Occurrences(q, id) : i <= j
LastIndex(q, id) ==
    CHOOSE i \in Occurrences(q, id) : \A j \in Occurrences(q, id) : i >= j

CmpComputed == pc \in {"cmp_print", "done"}

SameLine == [text |-> "Transactions are the same", ids |-> <<>>]

\* C17: only_in_1 holds the ids of file 1 that are not in file 2, only_in_2
\* the ids of file 2 not in file 1, different_values ids of both files, an id
\* that occurs once in each file being in it exactly when its two records are
\* not equal; "Transactions are the same" is printed exactly when the three
\* are empty
C17_DiffSets ==
    /\ CmpComputed =>
        /\ ToSet(only_in_1) = IdsOf(records1) \ IdsOf(records2)
        /\ ToSet(only_in_2) = IdsOf(records2) \ IdsOf(records1)
        /\ ToSet(different_values) \subseteq IdsOf(records1) \cap IdsOf(records2)
        /\ NoRepeat(only_in_1) /\ NoRepeat(only_in_2)
        /\ NoRepeat(different_values)
        /\ \A id \in IdsOf(records1) \cap IdsOf(records2) :
            (/\ Cardinality(Occurrences(records1, id)) = 1
             /\ Cardinality(Occurrences(records2, id)) = 1)
            => (id \in ToSet(different_values)
                <=> records1[FirstIndex(records1, id)]
                        # records2[FirstIndex(records2, id)])
    /\ pc = "done" =>
        /\ output # <<>>
        /\ (output = <<SameLine>>)
            <=> (only_in_1 = <<>> /\ only_in_2 = <<>> /\ different_values = <<>>)
        /\ SameLine \in ToSet(output) => output = <<SameLine>>

\* file 1 holds ids 1, 2, 3 and file 2 ids 2, 3, 4, the records of id 2
\* differing in the amount
C17_Witness ==
    /\ pc = "done"
    /\ Len(records1) = 3 /\ Len(records2) = 3
    /\ IdsOf(records1) = {1, 2, 3}
    /\ IdsOf(records2) = {2, 3, 4}
    /\ only_in_1 = <<1>>
    /\ only_in_2 = <<4>>
    /\ different_values = <<2>>
    /\ Len(output) = 3

\* C18: each map holds, for every id of its file, the record that comes last
\* with that id, and an id of both files is reported as differing exactly
\* when those last records are not equal, whatever records of the same id
\* come earlier
C18_LastWriteWins ==
    /\ pc \in {"cmp_diff", "cmp_print", "done"} =>
        /\ DOMAIN map1 = IdsOf(records1)
        /\ DOMAIN map2 = IdsOf(records2)
        /\ \A id \in IdsOf(records1) :
                map1[id] = records1[LastIndex(records1, id)]
        /\ \A id \in IdsOf(records2) :
                map2[id] = records2[LastIndex(records2, id)]
    /\ CmpComputed =>
        \A id \in IdsOf(records1) \cap IdsOf(records2) :
            id \in ToSet(different_values)
                <=> records1[LastIndex(records1, id)]
                        # records2[LastIndex(records2, id)]

\* file 1 holds id 2 twice, the last record equal to the one of file 2: the
\* files are reported the same
C18_Witness ==
    /\ pc = "done"
    /\ Len(records1) = 2
    /\ Len(records2) = 1
    /\ records1[1].id = 2 /\ records1[2].id = 2
    /\ records1[1] # records2[1]
    /\ records1[2] = records2[1]
    /\ output = <<SameLine>>

Ascending(v) == \A i, j \in 1..Len(v) : i < j => v[i] < v[j]

\* the ids of v come in the order in which they first (or last) occur in q
InsertionOrder(v, q) ==
    \/ \A i, j \in 1..Len(v) : i < j => FirstIndex(q, v[i]) < FirstIndex(q, v[j])
    \/ \A i, j \in 1..Len(v) : i < j => LastIndex(q, v[i]) < LastIndex(q, v[j])

\* C19 (as claimed): each list of ids is printed in ascending order or in the
\* order of the input, so the same inputs always give the same lines
C19_DeterministicOrder ==
    CmpComputed =>
        /\ Ascending(only_in_1) \/ InsertionOrder(only_in_1, records1)
        /\ Ascending(only_in_2) \/ InsertionOrder(only_in_2, records2)
        /\ \/ Ascending(different_values)
           \/ InsertionOrder(different_values, records1)
           \/ InsertionOrder(different_values, records2)

----------------------------------------------------------------------------
(* Converter (bin/converter.rs, lib.rs) *)

FileFormat == {"Binary", "Csv", "Text"}

\* the () of Ok(())
Unit == <<>>

\* write_all_records: the bytes the writer of `format` makes of the
\* records; `orders` is the iteration order of each text block's HashMap
WriteAllRecords(format, rs, orders) ==
    CASE format = "Binary" -> BinWriteAll(rs)
      [] format = "Csv" -> CsvWriteAll(rs)
      [] format = "Text" -> TextWriteAll(rs, orders)

\* ReadAndConvertIgnoringErr: the Err of read_all is replaced by no records
\* (read_all(reader).unwrap_or_default())
ReadAndConvertIgnoringErr(read_res, format, orders) ==
    LET rs == IF read_res.ok THEN read_res.val ELSE <<>>
    IN  [written |-> WriteAllRecords(format, rs, orders),
         returned |-> Ok(Unit)]

\* read_and_convert once read_all has returned read_res: the `?` returns the
\* Err as it is, before the writer is made; else write_all runs on a writer
\* that accepts every byte
ReadAndConvert(read_res, format, orders) ==
    IF ~read_res.ok
    THEN [written |-> <<>>, returned |-> read_res]
    ELSE [written |-> WriteAllRecords(format, read_res.val, orders),
          returned |-> Ok(Unit)]

\* binary input files: the frames of up to MaxDamagedRecs records, whole,
\* cut anywhere, or with the status tag of the first or the last frame set to 3
ConvBinFiles ==
    LET seqs == SeqsUpTo(DamagedPool, MaxDamagedRecs)
        whole == {BinWriteAll(rs) : rs \in seqs}
    IN  whole
        \cup UNION {{SubSeq(f, 1, k) : k \in 0..Len(f)} : f \in whole}
        \cup UNION {{[BinWriteAll(rs) EXCEPT
                        ![FrameStart(rs, i) + OffStatus + 1] = 3] :
                     i \in {1, Len(rs)}} : rs \in seqs \ {<<>>}}

\* text input files: a block with fewer than MaxDefects changes (every id
\* small enough for the writers) or with an extra line, alone, followed by a
\* blank line, or after a complete block and a blank line
ConvTxtFiles ==
    LET base == TxtChangedBlock(<<>>, KeyOrder)
        changes ==
            {f \in TxtChanges :
                /\ Cardinality(DOMAIN f) < MaxDefects
                /\ \A k \in DOMAIN f : f[k] # Value(U64_MAX_DIGITS)}
        blocks ==
            {TxtChangedBlock(f, o) : f \in changes, o \in FieldOrders}
            \cup {TxtBlockWithExtra(x, n, o) :
                    x \in TxtExtraLines, n \in {0, 4, 8}, o \in FieldOrders}
    IN  UNION {{b, b \o AsBytes(LF), base \o AsBytes(LF) \o b} : b \in blocks}

\* the arguments of read_and_convert: an input file and its format (the pc
\* of the reader that is to run)
ConvInit ==
    /\ \/ pc = "bin_read" /\ stream \in ConvBinFiles
       \/ pc = "txt_open" /\ stream \in ConvTxtFiles
       \/ pc = "csv_open" /\ stream \in CsvFiles
    /\ records = <<>>
    /\ hostile = TRUE
    /\ result = NoResult
    /\ BinIdle
    /\ TextIdle
    /\ CsvIdle
    /\ CmpIdle
    /\ ConvIdle

\* read_all has returned: the rest of read_and_convert
ConvFinish ==
    /\ pc = "done"
    /\ \E fmt \in FileFormat :
       \E orders \in [1..(IF result.ok THEN Len(result.val) ELSE 0)
                        -> FieldOrders] :
        LET r == ReadAndConvert(result, fmt, orders) IN
        /\ output_format' = fmt
        /\ written' = r.written
        /\ returned' = r.returned
    /\ pc' = "exit"
    /\ UNCHANGED cmpVars
    /\ UNCHANGED <<csvVars, records, stream, hostile, damage, io_fail, pos,
                   bin_records, lines, lineno, map, txt_records, result>>

ConvNext ==
    \/ BinReadFrame
    \/ BinCollect
    \/ TxtOpen
    \/ TxtLine
    \/ TxtEnd
    \/ CsvOpen
    \/ CsvRow
    \/ CsvEnd
    \/ ConvFinish

SpecConv == ConvInit /\ [][ConvNext]_vars

----------------------------------------------------------------------------
(* Properties of the converter *)

ConvExited == pc = "exit"

\* C22: the writer gets bytes only once read_all has returned Ok for the
\* whole input; when read_all fails, at whatever record, read_and_convert has
\* written zero bytes and returns the Err of read_all unchanged
C22_NoPartialOutput ==
    /\ written # <<>> => (ConvExited /\ result.ok)
    /\ (ConvExited /\ ~result.ok) => (written = <<>> /\ returned = result)
    /\ (ConvExited /\ result.ok) => returned = Ok(Unit)

\* a text input whose second block lacks TX_TYPE: one record was decoded,
\* nothing was written and the not-found error is returned
C22_Witness ==
    /\ ConvExited
    /\ Len(txt_records) = 1
    /\ result = Err(TextFieldNotFound(K_TX_TYPE))
    /\ returned = result
    /\ written = <<>>

====
